---- MODULE Spec2Model ----
(***************************************************************************)
(* LPFormatConverter (src/quick_fix_converter_2.py): the LP text converter *)
(* modelled as a state machine over character sequences.                   *)
(*                                                                         *)
(* A text is a sequence of one-character strings.  A Python float is the   *)
(* integer number of 10^-FracDigits units it holds, or one of inf, -inf,   *)
(* nan and -0.0; a text or a sum whose float is no whole number of units,  *)
(* or more than MaxUnits of them, has no value in the model.               *)
(***************************************************************************)
EXTENDS Integers, Sequences, FiniteSets, TLC

(***************************************************************************)
(* Bounds of the model.                                                    *)
(***************************************************************************)
\* decimal places a modelled float keeps
FracDigits == 4
\* longest variable token given to _normalize_var_name
MaxTokLen == 4
\* most terms in a generated objective
MaxObjTerms == 2
\* most constraints in a generated constraints section
MaxCons == 2
\* most lines in a constraints text generated line by line
MaxTextLines == 3
\* most lines in a file the line-repair pass reads
MaxLines == 3
\* most calls of convert_file and main on one converter object
MaxCalls == 2

\* most units a finite float holds (TLC's integers are 32 bits wide)
MaxUnits == 2147483647 - 3
\* most digits of an exponent whose number is computed (TLC's integers again)
MaxExpDigits == 8

(***************************************************************************)
(* Characters and character classes (Python's re classes \d, \s, [a-zA-Z_])*)
(***************************************************************************)
DigitSeq == <<"0", "1", "2", "3", "4", "5", "6", "7", "8", "9">>
LowerSeq == <<"a", "b", "c", "d", "e", "f", "g", "h", "i", "j", "k", "l", "m",
              "n", "o", "p", "q", "r", "s", "t", "u", "v", "w", "x", "y", "z">>
UpperSeq == <<"A", "B", "C", "D", "E", "F", "G", "H", "I", "J", "K", "L", "M",
              "N", "O", "P", "Q", "R", "S", "T", "U", "V", "W", "X", "Y", "Z">>
Range(f) == {f[i] : i \in DOMAIN f}
Digits == Range(DigitSeq)
Uppers == Range(UpperSeq)
Letters == Range(LowerSeq) \cup Uppers
\* [a-zA-Z_]
VarStart == Letters \cup {"_"}
\* [a-zA-Z0-9_\[\]]
VarChar == VarStart \cup Digits \cup {"[", "]"}
\* the whitespace float() ignores around a number: blank, \n, \t, \r, \f and
\* the vertical tab \x0b, which is written as the character itself
FloatSpace == {" ", "\n", "\t", "\r", "\f", ""}
\* \s and the characters str.strip() removes: the whitespace of float() and
\* the separators \x1c, \x1d, \x1e and \x1f, written as the characters
\* themselves.  The texts of the model are ASCII.
Space == FloatSpace \cup {"", "", "", ""}
Signs == {"+", "-"}

DigitVal(c) == (CHOOSE i \in DOMAIN DigitSeq : DigitSeq[i] = c) - 1
\* str.lower() of one character (re.IGNORECASE compares case-folded)
LowerChar(c) ==
  IF c \in Uppers
  THEN LowerSeq[CHOOSE i \in DOMAIN UpperSeq : UpperSeq[i] = c]
  ELSE c

(***************************************************************************)
(* String helpers.                                                         *)
(***************************************************************************)
\* first index >= i whose character is not in cls (Len(s)+1 when none): a greedy cls*
RECURSIVE Span(_, _, _)
Span(s, i, cls) ==
  IF i <= Len(s) /\ s[i] \in cls THEN Span(s, i + 1, cls) ELSE i

\* s[i..j-1]
Slice(s, i, j) == SubSeq(s, i, j - 1)

\* whether the literal lit occurs in s at index i
StartsAt(s, i, lit) ==
  /\ i + Len(lit) - 1 <= Len(s)
  /\ \A k \in 1..Len(lit) : s[i + k - 1] = lit[k]

\* the same, ignoring case (lit is lower case)
StartsAtFold(s, i, lit) ==
  /\ i + Len(lit) - 1 <= Len(s)
  /\ \A k \in 1..Len(lit) : LowerChar(s[i + k - 1]) = lit[k]

\* last index <= j whose character is not in cls (0 when none)
RECURSIVE SpanBack(_, _, _)
SpanBack(s, j, cls) ==
  IF j >= 1 /\ s[j] \in cls THEN SpanBack(s, j - 1, cls) ELSE j

\* s without the characters of cls at its two ends
StripOf(s, cls) ==
  LET i == Span(s, 1, cls)
      j == SpanBack(s, Len(s), cls)
  IN  IF i > j THEN <<>> ELSE SubSeq(s, i, j)

\* str.strip()
Strip(s) == StripOf(s, Space)

\* str.replace(' ', '')
RemoveBlanks(s) == SelectSeq(s, LAMBDA c : c # " ")

\* c in s
Contains(s, c) == \E i \in DOMAIN s : s[i] = c

\* least element of a non-empty set of integers
Least(S) == CHOOSE x \in S : \A y \in S : x <= y

\* first index of c in s at or after i (Len(s)+1 when none)
IndexOf(s, i, c) ==
  LET hits == {k \in i..Len(s) : s[k] = c}
  IN  IF hits = {} THEN Len(s) + 1 ELSE Least(hits)

\* str.split(sep) on a one-character separator
RECURSIVE SplitOn(_, _)
SplitOn(s, sep) ==
  LET k == IndexOf(s, 1, sep)
  IN  IF k > Len(s) THEN <<s>>
      ELSE <<SubSeq(s, 1, k - 1)>> \o SplitOn(SubSeq(s, k + 1, Len(s)), sep)

\* "".join(parts[lo..hi])
RECURSIVE Gather(_, _, _)
Gather(parts, lo, hi) ==
  IF lo > hi THEN <<>>
  ELSE IF lo = hi THEN parts[lo]
  ELSE LET mid == (lo + hi) \div 2
       IN  Gather(parts, lo, mid) \o Gather(parts, mid + 1, hi)

\* "".join(parts)
Concat(parts) == Gather(parts, 1, Len(parts))

(***************************************************************************)
(* Floats: float(text) and the text an f-string gives a float.             *)
(***************************************************************************)
RECURSIVE Pow10(_)
Pow10(n) == IF n <= 0 THEN 1 ELSE 10 * Pow10(n - 1)

Scale == Pow10(FracDigits)

\* the number written by the digits s[i..j-1]
RECURSIVE NatVal(_, _, _)
NatVal(s, i, j) ==
  IF j <= i THEN 0 ELSE 10 * NatVal(s, i, j - 1) + DigitVal(s[j - 1])

\* the decimal digits of the natural number n
RECURSIVE NatText(_)
NatText(n) ==
  IF n < 10 THEN <<DigitSeq[n + 1]>>
  ELSE NatText(n \div 10) \o <<DigitSeq[(n % 10) + 1]>>

\* A finite float holds at most MaxUnits units.  The four floats that are no
\* number of units are held as the integers beyond: float('inf'),
\* float('-inf'), float('nan') and the negative zero -0.0.
Inf == MaxUnits + 1
NegInf == -Inf
NaN == Inf + 1
NegZero == Inf + 2

\* a finite float that is no whole number of units, or is more than MaxUnits
\* of them, has no value here
Unrepresented(x) == CHOOSE v \in {} : v = x

\* x == 0 (-0.0 equals 0)
IsZero(x) == x = 0 \/ x = NegZero

\* x >= 0 (false of nan, true of -0.0)
NonNegative(x) == x # NaN /\ x >= 0

\* abs(x)
Abs(x) == IF x = NegZero THEN 0 ELSE IF x < 0 THEN -x ELSE x

(***************************************************************************)
(* Binary floating point.  A Python float is an IEEE 754 double: 53 bits m *)
(* and an exponent e, of value m * 2^e.  The float of x units is the       *)
(* double nearest to x / Scale, and a + b is the double nearest to the sum *)
(* of the two doubles (ties go to the even m).  A number too long for an   *)
(* integer is a sequence of bits, the highest first, or of limbs, each ten *)
(* bits of it.                                                             *)
(***************************************************************************)
\* bits of a double's m: the 52 it stores after the leading 1
Precision == 52 + 1

Base == 2 ^ 10

ZeroBits(n) == [k \in 1..n |-> 0]

\* the ten bits of the limb v
LimbBits(v) == [j \in 1..10 |-> (v \div (2 ^ (10 - j))) % 2]

\* the limb that is the bits[i..j]
RECURSIVE LimbAt(_, _, _)
LimbAt(bits, i, j) == IF j < i THEN 0 ELSE 2 * LimbAt(bits, i, j - 1) + bits[j]

\* the bits of limbs, and the limbs of ten times as many bits
BitsOf(limbs) == Concat([k \in DOMAIN limbs |-> LimbBits(limbs[k])])
LimbsOf(bits) == [k \in 1..(Len(bits) \div 10) |-> LimbAt(bits, 10 * k - 9, 10 * k)]

\* bits without its leading zeros
Significant(bits) ==
  IF \A k \in DOMAIN bits : bits[k] = 0 THEN <<>>
  ELSE SubSeq(bits, Least({k \in DOMAIN bits : bits[k] = 1}), Len(bits))

\* limbs[k..] divided by d, given the quotient q and the remainder r of limbs[..k-1]
RECURSIVE DivideFrom(_, _, _, _, _)
DivideFrom(limbs, d, k, q, r) ==
  IF k > Len(limbs) THEN [q |-> q, r |-> r]
  ELSE DivideFrom(limbs, d, k + 1, Append(q, (Base * r + limbs[k]) \div d),
                  (Base * r + limbs[k]) % d)

\* bits + 1
Increment(bits) ==
  IF \A k \in DOMAIN bits : bits[k] = 1 THEN <<1>> \o ZeroBits(Len(bits))
  ELSE LET last == CHOOSE k \in DOMAIN bits :
                     bits[k] = 0 /\ \A j \in (k + 1)..Len(bits) : bits[j] = 1
       IN  SubSeq(bits, 1, last - 1) \o <<1>> \o ZeroBits(Len(bits) - last)

\* the double nearest to the number bits (with no leading zero) * 2^e, to
\* which something below 1 * 2^e is added when more holds
Rounded(bits, e, more) ==
  LET n == Len(bits)
      m == SubSeq(bits, 1, Precision)
      up == /\ bits[Precision + 1] = 1
            /\ \/ more
               \/ m[Precision] = 1
               \/ \E k \in (Precision + 2)..n : bits[k] = 1
      m1 == IF up THEN Increment(m) ELSE m
  IN  IF n <= Precision THEN [m |-> bits \o ZeroBits(Precision - n), e |-> e - (Precision - n)]
      ELSE IF Len(m1) > Precision THEN [m |-> SubSeq(m1, 1, Precision), e |-> e + n - Precision + 1]
      ELSE [m |-> m1, e |-> e + n - Precision]

\* the float of x > 0 units: x * Base^k is divided by Scale, k limbs being
\* enough for the quotient to have more than Precision bits
DoubleOf(x) ==
  LET k == 6 + FracDigits
      d == DivideFrom([j \in 1..4 |-> (x \div (Base ^ (4 - j))) % Base] \o ZeroBits(k),
                      Scale, 1, <<>>, 0)
  IN  Rounded(Significant(BitsOf(d.q)), -10 * k, d.r # 0)

\* x + y + carry for limbs x and y of one length, from their limb k down
RECURSIVE AddFrom(_, _, _, _)
AddFrom(x, y, k, carry) ==
  IF k = 0 THEN <<carry>>
  ELSE AddFrom(x, y, k - 1, (x[k] + y[k] + carry) \div Base)
         \o <<(x[k] + y[k] + carry) % Base>>

\* x - y - borrow for limbs x >= y of one length, from their limb k down
RECURSIVE SubtractFrom(_, _, _, _)
SubtractFrom(x, y, k, borrow) ==
  IF k = 0 THEN <<>>
  ELSE SubtractFrom(x, y, k - 1, IF x[k] - y[k] - borrow < 0 THEN 1 ELSE 0)
         \o <<(x[k] - y[k] - borrow + Base) % Base>>

\* x < y for bits x and y of one length
LessBits(x, y) ==
  \E k \in DOMAIN x : x[k] < y[k] /\ \A j \in 1..(k - 1) : x[j] = y[j]

\* the double d in units of 2^e, as a number of n bits
Aligned(d, e, n) == ZeroBits(n - Precision - (d.e - e)) \o d.m \o ZeroBits(d.e - e)

\* the float a + b for the floats of a and b units, neither 0 nor opposite:
\* [neg |-> whether it is negative, m, e]
DoubleSum(a, b) ==
  LET da == DoubleOf(Abs(a))
      db == DoubleOf(Abs(b))
      e == IF da.e < db.e THEN da.e ELSE db.e
      n == 10 * ((Precision + Abs(da.e - db.e) + 9) \div 10)
      x == Aligned(da, e, n)
      y == Aligned(db, e, n)
      sum == IF (a < 0) = (b < 0) THEN AddFrom(LimbsOf(x), LimbsOf(y), n \div 10, 0)
             ELSE IF LessBits(x, y) THEN SubtractFrom(LimbsOf(y), LimbsOf(x), n \div 10, 0)
             ELSE SubtractFrom(LimbsOf(x), LimbsOf(y), n \div 10, 0)
      r == Rounded(Significant(BitsOf(sum)), e, FALSE)
  IN  [neg |-> IF (a < 0) = (b < 0) \/ ~LessBits(x, y) THEN a < 0 ELSE b < 0,
       m |-> r.m, e |-> r.e]

\* whether the float a + b is the float of a + b units
SumInUnits(a, b) ==
  /\ IF a >= 0 THEN b <= MaxUnits - a ELSE b >= -MaxUnits - a
  /\ DoubleSum(a, b) = [neg |-> a + b < 0, m |-> DoubleOf(Abs(a + b)).m,
                        e |-> DoubleOf(Abs(a + b)).e]

\* a + b of two floats
FloatAdd(a, b) ==
  IF a = NaN \/ b = NaN THEN NaN
  ELSE IF Abs(a) = Inf THEN (IF b = -a THEN NaN ELSE a)
  ELSE IF Abs(b) = Inf THEN b
  ELSE IF IsZero(a) THEN (IF a = 0 /\ b = NegZero THEN 0 ELSE b)
  ELSE IF IsZero(b) THEN a
  ELSE IF a = -b THEN 0
  ELSE IF SumInUnits(a, b) THEN a + b
  ELSE Unrepresented(<<a, b>>)

\* index after the digit group that starts at index i: digits, with single
\* underscores between two digits (i when s[i] is no digit)
DigitGroup(s, i) ==
  LET InGroup(k) ==
        \/ s[k] \in Digits
        \/ /\ s[k] = "_" /\ k > i /\ k < Len(s)
           /\ s[k - 1] \in Digits /\ s[k + 1] \in Digits
  IN  IF i > Len(s) THEN i
      ELSE CHOOSE j \in i..(Len(s) + 1) :
             /\ j = Len(s) + 1 \/ ~InGroup(j)
             /\ \A k \in i..(j - 1) : InGroup(k)

\* the digits of the digit group s[i..j-1]
DigitsIn(s, i, j) == SelectSeq(Slice(s, i, j), LAMBDA c : c # "_")

\* ds without its leading zeros
DropZeros(ds) ==
  LET i == CHOOSE j \in 1..(Len(ds) + 1) :
             /\ j = Len(ds) + 1 \/ ds[j] # "0"
             /\ \A k \in 1..(j - 1) : ds[k] = "0"
  IN  SubSeq(ds, i, Len(ds))

\* the units of the float nearest to mant * 10^e10, mant being digits that
\* start with a non-zero one.  From 10^309 on the float is inf, below 10^-324
\* it is 0.0.
UnitsOf(mant, e10) ==
  LET n == Len(mant)
      sh == e10 + FracDigits
      units == IF sh >= 0 THEN mant \o [k \in 1..sh |-> "0"] ELSE SubSeq(mant, 1, n + sh)
      max == NatText(MaxUnits)
  IN  IF n + e10 >= 310 THEN Inf
      ELSE IF n + e10 <= -324 THEN 0
      ELSE IF /\ n + sh >= 1
              /\ \A k \in (n + sh + 1)..n : mant[k] = "0"
              /\ \/ n + sh < Len(max)
                 \/ n + sh = Len(max) /\ units = max
                 \/ /\ n + sh = Len(max)
                    /\ \E k \in DOMAIN max :
                          /\ DigitVal(units[k]) < DigitVal(max[k])
                          /\ \A j \in 1..(k - 1) : units[j] = max[j]
      THEN NatVal(units, 1, n + sh + 1)
      ELSE Unrepresented(<<mant, e10>>)

\* float(text) is [ok |-> whether the text is a number, val |-> its value].
\* Surrounding whitespace is ignored; the forms are [sign] digits [. [digits]]
\* [exponent], [sign] . digits [exponent] and [sign] inf | infinity | nan in
\* any case.  The text s is scanned left to right: the integer digits are
\* s[i1..i2-1], the fraction digits s[i3..i4-1], the exponent digits
\* s[i5..i6-1] (i5 = i4 when there is no exponent).  An exponent of more than
\* MaxExpDigits digits, on a number that is not zero, gives inf or 0.0 whatever
\* the digits before it, the text being shorter than 10^MaxExpDigits - 324
\* characters; of a longer text the model has no value.
FloatValue(s, i1, i2, i3, i4, i5, i6) ==
  LET frac == DigitsIn(s, i3, i4)
      mant == DropZeros(DigitsIn(s, i1, i2) \o frac)
      exd == DropZeros(DigitsIn(s, i5, i6))
      exmag == IF Len(exd) <= MaxExpDigits THEN NatVal(exd, 1, Len(exd) + 1)
               ELSE IF Len(s) < Pow10(MaxExpDigits) - 324 THEN Pow10(MaxExpDigits)
               ELSE Unrepresented(s)
      ex == IF i5 > i4 /\ s[i4 + 1] = "-" THEN -exmag ELSE exmag
      mag == IF mant = <<>> THEN 0 ELSE UnitsOf(mant, ex - Len(frac))
  IN  IF /\ (i2 - i1) + (i4 - i3) >= 1
         /\ i5 > i4 => i6 > i5
         /\ i6 = Len(s) + 1
      THEN [ok |-> TRUE,
            val |-> IF s[1] # "-" THEN mag ELSE IF mag = 0 THEN NegZero ELSE -mag]
      ELSE [ok |-> FALSE, val |-> 0]

FloatExponent(s, i1, i2, i3, i4) ==
  IF i4 <= Len(s) /\ s[i4] \in {"e", "E"}
  THEN IF i4 + 1 <= Len(s) /\ s[i4 + 1] \in Signs
       THEN FloatValue(s, i1, i2, i3, i4, i4 + 2, DigitGroup(s, i4 + 2))
       ELSE FloatValue(s, i1, i2, i3, i4, i4 + 1, DigitGroup(s, i4 + 1))
  ELSE FloatValue(s, i1, i2, i3, i4, i4, i4)

FloatFraction(s, i1, i2) ==
  IF i2 <= Len(s) /\ s[i2] = "."
  THEN FloatExponent(s, i1, i2, i2 + 1, DigitGroup(s, i2 + 1))
  ELSE FloatExponent(s, i1, i2, i2, i2)

FloatDigits(s, i1) == FloatFraction(s, i1, DigitGroup(s, i1))

\* after the sign: inf, infinity or nan in any case, or digits
FloatWord(s, i1) ==
  LET word == [k \in 1..(Len(s) - i1 + 1) |-> LowerChar(s[k + i1 - 1])]
  IN  IF word \in {<<"i", "n", "f">>, <<"i", "n", "f", "i", "n", "i", "t", "y">>}
      THEN [ok |-> TRUE, val |-> IF s[1] = "-" THEN NegInf ELSE Inf]
      ELSE IF word = <<"n", "a", "n">> THEN [ok |-> TRUE, val |-> NaN]
      ELSE FloatDigits(s, i1)

FloatSign(s) ==
  IF s = <<>> THEN [ok |-> FALSE, val |-> 0]
  ELSE FloatWord(s, IF s[1] \in Signs THEN 2 ELSE 1)

ParseFloat(text) == FloatSign(StripOf(text, FloatSpace))

\* the k digits of f, zero-padded on the left
RECURSIVE FixedText(_, _)
FixedText(f, k) ==
  IF k <= 0 THEN <<>> ELSE FixedText(f \div 10, k - 1) \o <<DigitSeq[(f % 10) + 1]>>

\* the k digits of the fraction f / 10^k, its trailing zeros dropped, one digit kept
RECURSIVE FracText(_, _)
FracText(f, k) ==
  IF k > 1 /\ f % 10 = 0 THEN FracText(f \div 10, k - 1) ELSE FixedText(f, k)

\* a formatter that adds no fraction to an integral value (2.0 as 2): the
\* alternative to FormatFloat that the properties of the written numbers rule out
FormatWithoutFraction(x) ==
  (IF x < 0 THEN <<"-">> ELSE <<>>)
    \o NatText(Abs(x) \div Scale)
    \o (IF Abs(x) % Scale = 0 THEN <<>>
        ELSE <<".">> \o FracText(Abs(x) % Scale, FracDigits))

\* repr of the float of m >= 0 units.  From 0.0001 on (a finite float is below
\* 10^16) it is positional, with at least one fractional digit; below, it is
\* the digits of m with a point after the first, then e-XX
PositiveText(m) ==
  LET ds == NatText(m)
      sig == SubSeq(ds, 1, SpanBack(ds, Len(ds), {"0"}))
      ex == FracDigits - Len(ds) + 1
  IN  IF m = 0 \/ m >= Scale \div Pow10(4)
      THEN NatText(m \div Scale) \o <<".">> \o FracText(m % Scale, FracDigits)
      ELSE <<Head(sig)>> \o (IF Len(sig) > 1 THEN <<".">> \o Tail(sig) ELSE <<>>)
             \o <<"e", "-">> \o (IF ex < 10 THEN <<"0">> ELSE <<>>) \o NatText(ex)

\* f"{x}" for a float x: repr(x)
FormatFloat(x) ==
  IF x = NaN THEN <<"n", "a", "n">>
  ELSE IF Abs(x) = Inf THEN (IF x < 0 THEN <<"-">> ELSE <<>>) \o <<"i", "n", "f">>
  ELSE IF x = NegZero THEN <<"-", "0", ".", "0">>
  ELSE (IF x < 0 THEN <<"-">> ELSE <<>>) \o PositiveText(Abs(x))

(***************************************************************************)
(* Python's re module, for the patterns the converter uses.  A pattern is  *)
(* a sequence of elements; matching is by backtracking, the alternatives   *)
(* of each element tried in the order re tries them.                       *)
(***************************************************************************)
Unbounded == -1

\* cls{min,max}: greedy unless lazy; max = Unbounded for * and +
Rep(cls, min, max) == [kind |-> "rep", neg |-> FALSE, cls |-> cls, min |-> min, max |-> max, lazy |-> FALSE]
\* [^excl]{min,max}: the dot is [^\n], and [^] under re.DOTALL
NotRep(excl, min, max, lazy) == [kind |-> "rep", neg |-> TRUE, cls |-> excl, min |-> min, max |-> max, lazy |-> lazy]
One(cls) == Rep(cls, 1, 1)
Opt(cls) == Rep(cls, 0, 1)
Star(cls) == Rep(cls, 0, Unbounded)
Plus(cls) == Rep(cls, 1, Unbounded)
\* lit1|lit2|...: literal alternatives in order; fold is re.IGNORECASE
Lit(lits, fold) == [kind |-> "lit", lits |-> lits, fold |-> fold]
\* (?:sub)?
OptGroup(sub) == [kind |-> "group", sub |-> sub]
\* (?=lit1|lit2|...) and, with atEnd, (?=lit1|...|\Z)
Ahead(lits, fold, atEnd) == [kind |-> "ahead", lits |-> lits, fold |-> fold, atEnd |-> atEnd]
\* $ without re.MULTILINE: the end of the text, or just before its final newline
Dollar == [kind |-> "dollar"]
\* a group boundary: the position is recorded in the match
Mark == [kind |-> "mark"]

LitAt(s, i, lit, fold) == IF fold THEN StartsAtFold(s, i, lit) ELSE StartsAt(s, i, lit)

\* index after the longest run of the element's characters from index i
RunEnd(e, s, i) ==
  IF e.neg
  THEN LET stops == {k \in i..Len(s) : s[k] \in e.cls}
       IN  IF stops = {} THEN Len(s) + 1 ELSE Least(stops)
  ELSE Span(s, i, e.cls)

\* the end positions a repetition can reach from i, in the order re tries them
RepEnds(e, lo, hi) ==
  IF hi < lo THEN <<>>
  ELSE [j \in 1..(hi - lo + 1) |-> IF e.lazy THEN lo + j - 1 ELSE hi - j + 1]

Smaller(a, b) == IF a < b THEN a ELSE b

NoMatch == [ok |-> FALSE, start |-> 0, path |-> <<>>]

\* a unless it failed, then b: the next alternative is tried on backtracking
OrElse(a, b) == IF a.ok THEN a ELSE b

\* the match r of what follows an element tried at i, with the mark the
\* element sets
WithMark(e, i, r) ==
  IF e.kind = "mark" /\ r.ok THEN [r EXCEPT !.path = <<i>> \o @] ELSE r

RECURSIVE PathFrom(_, _, _, _), FirstAmong(_, _, _, _, _, _, _), Ends(_, _, _, _)

\* the positions one element can end at when tried at index i, in the order
\* re tries them
Options(e, s, i) ==
  IF e.kind = "rep"
  THEN RepEnds(e, i + e.min,
               IF e.max = Unbounded THEN RunEnd(e, s, i)
               ELSE Smaller(RunEnd(e, s, i), i + e.max))
  ELSE IF e.kind = "lit"
  THEN Concat([n \in DOMAIN e.lits |->
                 IF LitAt(s, i, e.lits[n], e.fold) THEN <<i + Len(e.lits[n])>> ELSE <<>>])
  ELSE IF e.kind = "group"
  THEN Ends(e.sub, 1, s, i) \o <<i>>
  ELSE IF e.kind = "ahead"
  THEN IF (e.atEnd /\ i = Len(s) + 1)
          \/ \E n \in DOMAIN e.lits : LitAt(s, i, e.lits[n], e.fold)
       THEN <<i>> ELSE <<>>
  ELSE IF e.kind = "dollar"
  THEN IF i = Len(s) + 1 \/ (i = Len(s) /\ s[i] = "\n") THEN <<i>> ELSE <<>>
  ELSE <<i>>

\* every position pat[k..] can end at when tried at index i, in that order
EndsVia(pat, k, s, opts) ==
  Concat([j \in DOMAIN opts |-> Ends(pat, k + 1, s, opts[j])])

Ends(pat, k, s, i) ==
  IF k > Len(pat) THEN <<i>> ELSE EndsVia(pat, k, s, Options(pat[k], s, i))

\* the first of the options lo..hi of element k from which the rest of the
\* pattern matches
FirstAmong(pat, k, s, i, opts, lo, hi) ==
  IF lo > hi THEN NoMatch
  ELSE IF lo = hi THEN WithMark(pat[k], i, PathFrom(pat, k + 1, s, opts[lo]))
  ELSE OrElse(FirstAmong(pat, k, s, i, opts, lo, (lo + hi) \div 2),
              FirstAmong(pat, k, s, i, opts, (lo + hi) \div 2 + 1, hi))

FirstOption(pat, k, s, i, opts) == FirstAmong(pat, k, s, i, opts, 1, Len(opts))

\* the way pat[k..] matches at index i: [ok, start, path], the path being the
\* positions of the marks, then the index after the match
PathFrom(pat, k, s, i) ==
  IF k > Len(pat) THEN [ok |-> TRUE, start |-> i, path |-> <<i>>]
  ELSE FirstOption(pat, k, s, i, Options(pat[k], s, i))

\* pattern.match(s, i)
Started(i, r) == IF r.ok THEN [r EXCEPT !.start = i] ELSE r

MatchAt(pat, s, i) == Started(i, PathFrom(pat, 1, s, i))

\* the match at the least start in lo..hi that has one
RECURSIVE FirstStart(_, _, _, _)
FirstStart(pat, s, lo, hi) ==
  IF lo > hi THEN NoMatch
  ELSE IF lo = hi THEN MatchAt(pat, s, lo)
  ELSE OrElse(FirstStart(pat, s, lo, (lo + hi) \div 2),
              FirstStart(pat, s, (lo + hi) \div 2 + 1, hi))

\* re.search(pat, s) from index pos
Search(pat, s, pos) == FirstStart(pat, s, pos, Len(s) + 1)

\* index after a match
MatchEnd(m) == m.path[Len(m.path)]

\* re.finditer(pat, s): the matches in order, each sought from where the last ended
RECURSIVE FindFrom(_, _, _)
FindFrom(pat, s, m) ==
  IF m.ok THEN <<m>> \o FindFrom(pat, s, Search(pat, s, MatchEnd(m))) ELSE <<>>

FindIter(pat, s) == FindFrom(pat, s, Search(pat, s, 1))

(***************************************************************************)
(* Dictionaries.  A Python dict keeps its keys in insertion order, and the *)
(* writer iterates in that order: a dict is a sequence of [var, coeff].    *)
(***************************************************************************)
Keys(d) == {d[i].var : i \in DOMAIN d}

\* d.get(var, 0)
DictGet(d, var) ==
  IF var \in Keys(d) THEN d[CHOOSE i \in DOMAIN d : d[i].var = var].coeff ELSE 0

\* d[var] = val
DictSet(d, var, val) ==
  IF var \in Keys(d)
  THEN [i \in DOMAIN d |-> IF d[i].var = var THEN [var |-> var, coeff |-> val] ELSE d[i]]
  ELSE Append(d, [var |-> var, coeff |-> val])

\* d[var] = d.get(var, 0) + coeff
DictAccumulate(d, var, coeff) == DictSet(d, var, FloatAdd(DictGet(d, var), coeff))

(***************************************************************************)
(* _normalize_var_name: re.sub(r'\[([0-9]+)\]', r'_\1', var)               *)
(***************************************************************************)
\* a substitution that does not ask for the closing bracket, r'\[([0-9]+)': the
\* alternative to NormalizeFrom that the properties of the normalizer rule out
RECURSIVE NormalizeOpenFrom(_, _)
NormalizeOpenFrom(s, i) ==
  IF i > Len(s) THEN <<>>
  ELSE IF s[i] = "[" /\ Span(s, i + 1, Digits) > i + 1
  THEN <<"_">> \o Slice(s, i + 1, Span(s, i + 1, Digits))
         \o NormalizeOpenFrom(s, Span(s, i + 1, Digits))
  ELSE <<s[i]>> \o NormalizeOpenFrom(s, i + 1)

\* a normalizer that leaves every name as it is
KeepVarName(var) == var

RECURSIVE NormalizeFrom(_, _)
NormalizeFrom(s, i) ==
  IF i > Len(s) THEN <<>>
  ELSE LET j == Span(s, i + 1, Digits)
       IN  IF s[i] = "[" /\ j > i + 1 /\ j <= Len(s) /\ s[j] = "]"
           THEN <<"_">> \o Slice(s, i + 1, j) \o NormalizeFrom(s, j + 1)
           ELSE <<s[i]>> \o NormalizeFrom(s, i + 1)

NormalizeVarName(var) == NormalizeFrom(var, 1)

(***************************************************************************)
(* _parse_coefficient                                                      *)
(***************************************************************************)
\* a _parse_coefficient whose except clause gives 0.0
CoefficientOfZeroFallback(t) ==
  IF t = <<>> \/ t = <<"+">> THEN Scale
  ELSE IF t = <<"-">> THEN -Scale
  ELSE IF ParseFloat(t).ok THEN ParseFloat(t).val
  ELSE 0

CoefficientOf(t) ==
  IF t = <<>> \/ t = <<"+">> THEN Scale
  ELSE IF t = <<"-">> THEN -Scale
  ELSE IF ParseFloat(t).ok THEN ParseFloat(t).val
  ELSE Scale

ParseCoefficient(coeff_str) == CoefficientOf(Strip(RemoveBlanks(coeff_str)))

(***************************************************************************)
(* The term patterns of _parse_objective and _parse_linear_expression.     *)
(* Group 1 runs from the match's start to the first mark, group 2 from the *)
(* second mark to the match's end.                                         *)
(***************************************************************************)
\* the objective pattern without its exponent group: the alternative that the
\* exponent property rules out
ObjectivePatternNoExponent ==
  <<Opt(Signs), Star(Space), Plus(Digits),
    OptGroup(<<One({"."}), Plus(Digits)>>),
    Mark, Star({" "}), Opt({"*"}), Star({" "}),
    Mark, One(VarStart), Star(VarChar)>>

\* ([+-]?\s*\d+(?:\.\d+)?(?:[eE][+-]?\d+)?)[ ]*\*?[ ]*([a-zA-Z_][a-zA-Z0-9_\[\]]*)
ObjectivePattern ==
  <<Opt(Signs), Star(Space), Plus(Digits),
    OptGroup(<<One({"."}), Plus(Digits)>>),
    OptGroup(<<One({"e", "E"}), Opt(Signs), Plus(Digits)>>),
    Mark, Star({" "}), Opt({"*"}), Star({" "}),
    Mark, One(VarStart), Star(VarChar)>>

\* ([+-]?\s*\d*\.?\d*)\s*\*?\s*([a-zA-Z_][a-zA-Z0-9_\[\]]*)
LinearPattern ==
  <<Opt(Signs), Star(Space), Star(Digits), Opt({"."}), Star(Digits),
    Mark, Star(Space), Opt({"*"}), Star(Space),
    Mark, One(VarStart), Star(VarChar)>>

\* coeff_str, var = match.groups()
CoeffStr(s, m) == Slice(s, m.start, m.path[1])
VarStr(s, m) == Slice(s, m.path[2], m.path[3])

\* the loop body shared by both parsers, over the matches in order:
\* var = normalize(var.strip()); terms[var] = terms.get(var, 0) + coeff
\* an accumulation under the names as they are written in the text
RECURSIVE AccumulateTermsAsWritten(_, _, _)
AccumulateTermsAsWritten(s, ms, terms) ==
  IF ms = <<>> THEN terms
  ELSE AccumulateTermsAsWritten(s, Tail(ms),
                                DictAccumulate(terms, Strip(VarStr(s, Head(ms))),
                                               ParseCoefficient(CoeffStr(s, Head(ms)))))

RECURSIVE AccumulateTerms(_, _, _)
AccumulateTerms(s, ms, terms) ==
  IF ms = <<>> THEN terms
  ELSE AccumulateTerms(s, Tail(ms),
                       DictAccumulate(terms,
                                      NormalizeVarName(Strip(VarStr(s, Head(ms)))),
                                      ParseCoefficient(CoeffStr(s, Head(ms)))))

\* a dict of terms whose names are not registered in self.variables
WithoutVars(terms) == [terms |-> terms, vars |-> {}]

\* a dict of terms, with the names that go into self.variables with it
WithVars(terms) == [terms |-> terms, vars |-> Keys(terms)]

\* _parse_objective: the terms returned and the names added to self.variables
ParseObjective(obj_text) ==
  WithVars(AccumulateTerms(obj_text, FindIter(ObjectivePattern, obj_text), <<>>))

\* _parse_linear_expression
ParseLinearExpression(expr) ==
  AccumulateTerms(expr, FindIter(LinearPattern, expr), <<>>)

(***************************************************************************)
(* _parse_single_constraint_fixed                                          *)
(***************************************************************************)
LE == <<"<", "=">>
GE == <<">", "=">>
EQ == <<"=">>

\* (.+?)\s*op\s*(.+)
SensePattern(op) ==
  <<NotRep({"\n"}, 1, Unbounded, TRUE),
    Mark, Star(Space), Lit(<<op>>, FALSE), Star(Space),
    Mark, NotRep({"\n"}, 1, Unbounded, FALSE)>>

\* the sense patterns with = tried first: the order the precedence property
\* rules out
SensePatternsEqFirst ==
  <<[sense |-> EQ, pattern |-> SensePattern(EQ)],
    [sense |-> LE, pattern |-> SensePattern(LE)],
    [sense |-> GE, pattern |-> SensePattern(GE)]>>

\* sense_patterns, in the order the loop tries them
SensePatterns ==
  <<[sense |-> LE, pattern |-> SensePattern(LE)],
    [sense |-> GE, pattern |-> SensePattern(GE)],
    [sense |-> EQ, pattern |-> SensePattern(EQ)]>>

\* the loop over sense_patterns from entry i on: [ok, sense, lhs, rhs] at the
\* first pattern that matches, the defaults when none does
RECURSIVE SenseLoop(_, _)
\* a loop in which a pattern counts only when its right text is a float
SenseFoundNumeric(expr, i, m) ==
  IF m.ok /\ ParseFloat(Strip(Slice(expr, m.path[2], m.path[3]))).ok
  THEN [ok |-> TRUE, sense |-> SensePatterns[i].sense,
        lhs |-> Strip(Slice(expr, m.start, m.path[1])),
        rhs |-> Strip(Slice(expr, m.path[2], m.path[3]))]
  ELSE SenseLoop(expr, i + 1)

SenseFound(expr, i, m) ==
  IF m.ok
  THEN [ok |-> TRUE, sense |-> SensePatterns[i].sense,
        lhs |-> Strip(Slice(expr, m.start, m.path[1])),
        rhs |-> Strip(Slice(expr, m.path[2], m.path[3]))]
  ELSE SenseLoop(expr, i + 1)

SenseLoop(expr, i) ==
  IF i > Len(SensePatterns)
  THEN [ok |-> FALSE, sense |-> EQ, lhs |-> expr, rhs |-> <<>>]
  ELSE SenseFound(expr, i, Search(SensePatterns[i].pattern, expr, 1))

\* the matches of the three patterns, and the entries that match
SenseMatches(expr) ==
  [i \in DOMAIN SensePatterns |-> Search(SensePatterns[i].pattern, expr, 1)]
Matching(ms) == {i \in DOMAIN ms : ms[i].ok}

\* the match whose operator stands first in the text
Leftmost(ms) ==
  CHOOSE i \in Matching(ms) :
    \A j \in Matching(ms) :
      ms[i].path[1] < ms[j].path[1] \/ (ms[i].path[1] = ms[j].path[1] /\ i <= j)

\* a search that honours the operator standing first in the text, whatever
\* its place in sense_patterns
SenseInText(expr, ms) ==
  IF Matching(ms) = {}
  THEN [ok |-> FALSE, sense |-> EQ, lhs |-> expr, rhs |-> <<>>]
  ELSE [ok |-> TRUE, sense |-> SensePatterns[Leftmost(ms)].sense,
        lhs |-> Strip(Slice(expr, ms[Leftmost(ms)].start, ms[Leftmost(ms)].path[1])),
        rhs |-> Strip(Slice(expr, ms[Leftmost(ms)].path[2], ms[Leftmost(ms)].path[3]))]

FirstSenseInText(expr) == SenseInText(expr, SenseMatches(expr))

FirstSense(expr) == SenseLoop(expr, 1)

\* try: rhs_value = float(rhs_str) except ValueError: rhs_value = 0.0
FloatOrZero(f) == IF f.ok THEN f.val ELSE 0

\* the constraint record returned, and the names added to self.variables
ConstraintRecord(name, sense, rhs, terms) ==
  [constraint |-> [name |-> name, terms |-> terms, sense |-> sense, rhs |-> rhs],
   vars |-> Keys(terms)]

\* a record whose left-hand side is parsed only when an operator was found
ConstraintOfMatchedOnly(name, m) ==
  ConstraintRecord(name, m.sense,
                   IF m.ok THEN FloatOrZero(ParseFloat(m.rhs)) ELSE 0,
                   IF m.ok THEN ParseLinearExpression(m.lhs) ELSE <<>>)

ConstraintOf(name, m) ==
  ConstraintRecord(name, m.sense,
                   IF m.ok THEN FloatOrZero(ParseFloat(m.rhs)) ELSE 0,
                   ParseLinearExpression(m.lhs))

ParseSingleConstraintFixed(name, expr) == ConstraintOf(name, FirstSense(expr))

(***************************************************************************)
(* _parse_constraints_fixed                                                *)
(***************************************************************************)
\* the loop's state: the records so far, the buffered expression, its name,
\* and the names added to self.variables
LoopStart == [constraints |-> <<>>, current |-> <<>>, name |-> <<>>, vars |-> {}]

\* constraints.append(constraint_dict)
Appended(st, r) ==
  [st EXCEPT !.constraints = Append(@, r.constraint), !.vars = @ \cup r.vars]

\* a flush that appends a record whatever the name and the buffer hold
FlushAlways(st) == Appended(st, ParseSingleConstraintFixed(st.name, st.current))

\* "Process previous constraint" / "Process final constraint"
Flush(st) ==
  IF st.current # <<>> /\ st.name # <<>>
  THEN Appended(st, ParseSingleConstraintFixed(st.name, st.current))
  ELSE st

\* name_part, expr_part = line.split(':', 1)
StartConstraint(st, line, k) ==
  [st EXCEPT !.name = Strip(SubSeq(line, 1, k - 1)),
             !.current = Strip(SubSeq(line, k + 1, Len(line)))]

\* a loop body that drops continuation lines instead of appending them
LineOfNoMerge(st, line) ==
  IF line = <<>> THEN st
  ELSE IF Contains(line, ":") /\ line[1] \notin Signs
  THEN StartConstraint(Flush(st), line, IndexOf(line, 1, ":"))
  ELSE st

\* one iteration of the loop over the lines, the line stripped
LineOf(st, line) ==
  IF line = <<>> THEN st
  ELSE IF Contains(line, ":") /\ line[1] \notin Signs
  THEN StartConstraint(Flush(st), line, IndexOf(line, 1, ":"))
  ELSE [st EXCEPT !.current = @ \o <<" ">> \o line]

LineStep(st, raw) == LineOf(st, Strip(raw))

RECURSIVE LinesLoop(_, _)
LinesLoop(st, lines) ==
  IF lines = <<>> THEN st ELSE LinesLoop(LineStep(st, Head(lines)), Tail(lines))

LoopResult(st) == [constraints |-> st.constraints, vars |-> st.vars]

\* [constraints |-> the list returned, vars |-> the names added to self.variables]
ParseConstraintsFixed(constraint_text) ==
  LoopResult(Flush(LinesLoop(LoopStart, SplitOn(Strip(constraint_text), "\n"))))

(***************************************************************************)
(* _split_sections and _parse_lp_file                                      *)
(***************************************************************************)
\* re.sub(r'\\.*$', '', content, flags=re.MULTILINE): a backslash and the
\* rest of its line go, the line break stays
RECURSIVE LineStart(_, _)
LineStart(s, k) ==
  IF k < 1 \/ s[k] = "\n" THEN k + 1 ELSE LineStart(s, k - 1)

RemoveComments(s) ==
  Concat([i \in 1..Len(s) |->
            IF \E j \in LineStart(s, i)..i : s[j] = "\\" THEN <<>> ELSE <<s[i]>>])

\* re.sub(r'\s+', ' ', content): one blank for each run of whitespace
CollapseSpace(s) ==
  Concat([i \in 1..Len(s) |->
            IF s[i] \notin Space THEN <<s[i]>>
            ELSE IF i > 1 /\ s[i - 1] \in Space THEN <<>>
            ELSE <<" ">>])

KwMinimize == <<"m", "i", "n", "i", "m", "i", "z", "e">>
KwMaximize == <<"m", "a", "x", "i", "m", "i", "z", "e">>
KwMin == <<"m", "i", "n">>
KwMax == <<"m", "a", "x">>
KwObj == <<"o", "b", "j">>
KwSubjectTo == <<"s", "u", "b", "j", "e", "c", "t", " ", "t", "o">>
KwST == <<"s", ".", "t", ".">>
KwConstraints == <<"c", "o", "n", "s", "t", "r", "a", "i", "n", "t", "s">>
KwBounds == <<"b", "o", "u", "n", "d", "s">>
KwEnd == <<"e", "n", "d">>

\* the alternatives of each pattern's first group and of its lookahead, in order
ObjectiveOpen == <<KwMinimize, KwMaximize, KwMin, KwMax, KwObj>>
ObjectiveClose == <<KwSubjectTo, KwST, KwConstraints, KwBounds, KwEnd>>
ConstraintsOpen == <<KwSubjectTo, KwST, KwConstraints>>
ConstraintsClose == <<KwBounds, KwEnd>>
BoundsOpen == <<KwBounds>>
BoundsClose == <<KwEnd>>

\* (open)(.*?)(?=close|\Z) under re.IGNORECASE | re.DOTALL; group 2 lies
\* between the two marks
SectionPattern(open, close) ==
  <<Lit(open, TRUE), Mark, NotRep({}, 0, Unbounded, TRUE), Mark, Ahead(close, TRUE, TRUE)>>

\* match.groups()[1:] joined and stripped: [found, text]
SectionOf(content, m) ==
  IF m.ok THEN [found |-> TRUE, text |-> Strip(Slice(content, m.path[1], m.path[2]))]
  ELSE [found |-> FALSE, text |-> <<>>]

Section(content, open, close) ==
  SectionOf(content, Search(SectionPattern(open, close), content, 1))

SplitSections(content) ==
  [objective   |-> Section(content, ObjectiveOpen, ObjectiveClose),
   constraints |-> Section(content, ConstraintsOpen, ConstraintsClose),
   bounds      |-> Section(content, BoundsOpen, BoundsClose)]

\* open(filename, 'r') ... f.read(): the file is read in text mode, which gives
\* "\n" for each of its line ends "\r\n", "\r" and "\n"
ReadText(file) ==
  Concat([i \in 1..Len(file) |->
            IF file[i] # "\r" THEN <<file[i]>>
            ELSE IF i < Len(file) /\ file[i + 1] = "\n" THEN <<>>
            ELSE <<"\n">>])

\* the two re.sub calls that clean the file's content
CleanContent(content) == CollapseSpace(RemoveComments(content))

\* a _parse_bounds that keeps the section's text as an entry
ParseBoundsKept(bounds_text) == <<[var |-> bounds_text, coeff |-> 0]>>

\* _parse_bounds
ParseBounds(bounds_text) == <<>>

\* a converter object: the four attributes __init__ sets
NewConverter ==
  [objective_terms |-> <<>>, constraints |-> <<>>, bounds |-> <<>>, variables |-> {}]

\* the assignments of _parse_lp_file: o and k are what the two parsers gave
\* for the sections found, and the attribute as it was for a section not found
Assigned(c, sections, o, k) ==
  [objective_terms |-> o.terms,
   constraints |-> k.constraints,
   bounds |-> IF sections.bounds.found THEN ParseBounds(sections.bounds.text)
              ELSE c.bounds,
   variables |-> c.variables \cup o.vars \cup k.vars]

ParseSections(c, sections) ==
  Assigned(c, sections,
           IF sections.objective.found THEN ParseObjective(sections.objective.text)
           ELSE [terms |-> c.objective_terms, vars |-> {}],
           IF sections.constraints.found
           THEN ParseConstraintsFixed(sections.constraints.text)
           ELSE [constraints |-> c.constraints, vars |-> {}])

\* _parse_lp_file on converter c and a file whose bytes are file: the converter after it
ParseLpFile(c, file) == ParseSections(c, SplitSections(CleanContent(ReadText(file))))

(***************************************************************************)
(* _write_vqe_format                                                       *)
(***************************************************************************)
\* the loop without its test coeff != 0: every term of the mapping is written
RECURSIVE TermPartsKeepZero(_, _)
TermPartsKeepZero(terms, emitted) ==
  IF terms = <<>> THEN emitted
  ELSE LET var == Head(terms).var
           coeff0 == Head(terms).coeff
           sign == IF emitted = <<>>
                   THEN (IF NonNegative(coeff0) THEN <<>> ELSE <<"-">>)
                   ELSE (IF NonNegative(coeff0) THEN <<" ", "+", " ">> ELSE <<" ", "-", " ">>)
           coeff == IF emitted = <<>> THEN coeff0 ELSE Abs(coeff0)
           part == IF coeff = Scale THEN sign \o var
                   ELSE sign \o FormatFloat(coeff) \o <<" ">> \o var
       IN  TermPartsKeepZero(Tail(terms), Append(emitted, part))

\* the loop that builds terms / term_parts: emitted is the list so far
RECURSIVE TermParts(_, _)
TermParts(terms, emitted) ==
  IF terms = <<>> THEN emitted
  ELSE LET var == Head(terms).var
           coeff0 == Head(terms).coeff
           sign == IF emitted = <<>>
                   THEN (IF NonNegative(coeff0) THEN <<>> ELSE <<"-">>)
                   ELSE (IF NonNegative(coeff0) THEN <<" ", "+", " ">> ELSE <<" ", "-", " ">>)
           coeff == IF emitted = <<>> THEN coeff0 ELSE Abs(coeff0)
           part == IF coeff = Scale THEN sign \o var
                   ELSE sign \o FormatFloat(coeff) \o <<" ">> \o var
       IN  IF ~IsZero(coeff0) THEN TermParts(Tail(terms), Append(emitted, part))
           ELSE TermParts(Tail(terms), emitted)

TermList(terms) == Concat(TermParts(terms, <<>>))

ConstraintLine(c) ==
  c.name \o <<":", " ">> \o TermList(c.terms) \o <<" ">> \o c.sense \o <<" ">>
    \o FormatFloat(c.rhs) \o <<"\n">>

ConstraintLines(cs) == Concat([i \in DOMAIN cs |-> ConstraintLine(cs[i])])

\* a writer whose objective header is maximize
WriteVqeFormatMaximize(c) ==
  (IF c.objective_terms # <<>>
   THEN KwMaximize \o <<"\n">> \o KwObj \o <<":", " ">>
          \o TermList(c.objective_terms) \o <<"\n", "\n">>
   ELSE <<>>)
  \o (IF c.constraints # <<>>
      THEN KwSubjectTo \o <<"\n">> \o ConstraintLines(c.constraints) \o <<"\n">>
      ELSE <<>>)
  \o KwEnd \o <<"\n">>

\* the content of the file _write_vqe_format writes for converter c
WriteVqeFormat(c) ==
  (IF c.objective_terms # <<>>
   THEN KwMinimize \o <<"\n">> \o KwObj \o <<":", " ">>
          \o TermList(c.objective_terms) \o <<"\n", "\n">>
   ELSE <<>>)
  \o (IF c.constraints # <<>>
      THEN KwSubjectTo \o <<"\n">> \o ConstraintLines(c.constraints) \o <<"\n">>
      ELSE <<>>)
  \o KwEnd \o <<"\n">>

(***************************************************************************)
(* The program state: one LPFormatConverter object, the output file, and   *)
(* the record of the last call made.                                       *)
(***************************************************************************)
VARIABLES
  objective_terms,  \* self.objective_terms
  constraints,      \* self.constraints
  bounds,           \* self.bounds
  variables,        \* self.variables
  output_file,      \* the file at the output path: [exists, content]
  calls,            \* calls of convert_file and main since the converter was constructed
  call,             \* the last call: [op, src, arg, ret, prev]
  repair            \* the line-repair pass of create_vanguard_test_suite: its locals
                    \* lines, i, fixed_lines and merged_line, its position pc, the
                    \* lines written, and the history spans

vars ==
  <<objective_terms, constraints, bounds, variables, output_file, calls, call, repair>>

\* the converter object the state holds
Converter ==
  [objective_terms |-> objective_terms, constraints |-> constraints,
   bounds |-> bounds, variables |-> variables]

SetConverter(c) ==
  /\ objective_terms' = c.objective_terms
  /\ constraints' = c.constraints
  /\ bounds' = c.bounds
  /\ variables' = c.variables

NoCall == [op |-> "none", src |-> <<>>, arg |-> <<>>, ret |-> <<>>, prev |-> <<>>]

\* the pass not begun: nothing read, nothing written
NoRepair ==
  [pc |-> "idle", lines |-> <<>>, i |-> 0, fixed_lines |-> <<>>, merged_line |-> <<>>,
   first |-> 0, spans |-> <<>>, written |-> <<>>]

\* converter = LPFormatConverter(), nothing written yet
Init ==
  /\ objective_terms = NewConverter.objective_terms
  /\ constraints = NewConverter.constraints
  /\ bounds = NewConverter.bounds
  /\ variables = NewConverter.variables
  /\ output_file = [exists |-> FALSE, content |-> <<>>]
  /\ calls = 0
  /\ call = NoCall
  /\ repair = NoRepair

(***************************************************************************)
(* Input files.  A file is an objective block, a constraints block of n    *)
(* constraints c0, c1, ... each starting on its own line, and the line     *)
(* end; with split, the constraints of even index continue on a second     *)
(* line.                                                                   *)
(***************************************************************************)
ObjScenario ==
  <<"m", "i", "n", "i", "m", "i", "z", "e", "\n", "o", "b", "j", ":", " ", "2", " ",
    "w", "[", "0", "]", " ", "+", " ", "3", " ", "w", "[", "1", "]", "\n">>
ObjUnit ==
  <<"m", "i", "n", "i", "m", "i", "z", "e", "\n", "o", "b", "j", ":", " ", "1", " ",
    "x", " ", "+", " ", "2", " ", "y", "\n">>
ObjNegative ==
  <<"m", "a", "x", "i", "m", "i", "z", "e", "\n", "o", "b", "j", ":", " ", "-", " ",
    "2", " ", "x", "_", "1", " ", "-", " ", "3", " ", "x", "_", "1", "\n">>

\* the objective blocks a file may open with; the first is no objective at all
ObjectiveBlocks == <<<<>>, ObjScenario, ObjUnit, ObjNegative>>

LhsFirstLine ==
  <<" ", "w", "[", "0", "]">>
LhsSecondLine ==
  <<"+", " ", "w", "[", "1", "]", " ", "=", " ", "1", "\n">>
OddConstraint ==
  <<" ", "2", " ", "x", " ", "+", " ", "3", " ", "x", " ", "<", "=", " ", "2", "\n">>
Indent ==
  <<" ", "\t", "\f", " ">>

\* the name of constraint i: c0, c1, ...
ConstraintName(i) == <<"c">> \o NatText(i)

\* the text of constraint i (from 0)
ConstraintText(i, split) ==
  ConstraintName(i) \o <<":">>
    \o (IF i % 2 = 1 THEN OddConstraint
        ELSE LhsFirstLine \o (IF split THEN <<"\n">> \o Indent ELSE <<" ">>)
               \o LhsSecondLine)

ConstraintsBlock(n, split) ==
  IF n = 0 THEN <<>>
  ELSE KwSubjectTo \o <<"\n">> \o Concat([i \in 1..n |-> ConstraintText(i - 1, split)])

\* a file's parameters: [obj, n, split]
FileShapes ==
  {[obj |-> o, n |-> n, split |-> sp] :
     o \in DOMAIN ObjectiveBlocks, n \in 0..MaxCons, sp \in BOOLEAN}

FileOf(shape) ==
  ObjectiveBlocks[shape.obj] \o ConstraintsBlock(shape.n, shape.split)
    \o KwEnd \o <<"\n">>

\* the end-to-end scenario of the specification
ScenarioShape == [obj |-> 2, n |-> 1, split |-> TRUE]
ScenarioFile == FileOf(ScenarioShape)

(***************************************************************************)
(* convert_file and main                                                   *)
(***************************************************************************)
\* convert_file(input) on the converter object: _parse_lp_file, then
\* _write_vqe_format on the output path
\* the converter holds c, and the output file what the writer makes of it
Converted(c) ==
  /\ SetConverter(c)
  /\ output_file' = [exists |-> TRUE, content |-> WriteVqeFormat(c)]
  /\ UNCHANGED repair

ConvertFile(shape) ==
  /\ calls < MaxCalls
  /\ Converted(ParseLpFile(Converter, FileOf(shape)))
  /\ calls' = calls + 1
  /\ call' = [op |-> "convert_file", src |-> shape, arg |-> FileOf(shape),
              ret |-> <<>>, prev |-> <<>>]

\* main() run on the file the converter wrote: a fresh converter converts it
ReconvertOutput ==
  /\ output_file.exists
  /\ Converted(ParseLpFile(NewConverter, output_file.content))
  /\ calls' = 1
  /\ call' = [op |-> "reconvert", src |-> <<>>, arg |-> output_file.content,
              ret |-> <<>>, prev |-> <<>>]

\* a convert_file that writes the output file before it reads the input
WrittenBeforeRead ==
  /\ UNCHANGED <<objective_terms, constraints, bounds, variables, repair>>
  /\ output_file' = [exists |-> TRUE, content |-> WriteVqeFormat(Converter)]

\* open(filename, 'r') raises FileNotFoundError: _parse_lp_file assigns
\* nothing, and convert_file is left before _write_vqe_format is called
RaisedOnRead ==
  UNCHANGED <<objective_terms, constraints, bounds, variables, output_file, repair>>

\* convert_file(input, output) with no file at the input path
ConvertMissingFile ==
  /\ calls < MaxCalls
  /\ RaisedOnRead
  /\ calls' = calls + 1
  /\ call' = [op |-> "convert_file raised", src |-> <<>>, arg |-> <<>>,
              ret |-> <<>>, prev |-> <<>>]

\* main() with no file at sys.argv[1]: the error is printed and main
\* returns, no converter made
MainMissingFile ==
  /\ calls < MaxCalls
  /\ UNCHANGED <<objective_terms, constraints, bounds, variables, output_file, repair>>
  /\ calls' = calls + 1
  /\ call' = [op |-> "main returned", src |-> <<>>, arg |-> <<>>,
              ret |-> <<>>, prev |-> <<>>]

Next ==
  \/ \E shape \in FileShapes : ConvertFile(shape)
  \/ ReconvertOutput
  \/ ConvertMissingFile
  \/ MainMissingFile

Spec == Init /\ [][Next]_vars

(***************************************************************************)
(* The line-repair pass of create_vanguard_test_suite: the loops over the  *)
(* lines of the LP file, one action for each iteration.                    *)
(***************************************************************************)
\* (<=|>=|=)\s*[-+]?\d*\.?\d+(e[-+]?\d+)?$ ; the lines searched are
\* stripped, so $ is the end of the text
CompletePattern ==
  <<Lit(<<LE, GE, EQ>>, FALSE), Star(Space), Opt(Signs), Star(Digits), Opt({"."}),
    Plus(Digits), OptGroup(<<One({"e"}), Opt(Signs), Plus(Digits)>>),
    Dollar>>

\* re.search(pattern, line) finds a match
EndsComplete(line) == Search(CompletePattern, line, 1).ok

\* lines[i].rstrip('\n').strip(), i counted from 0
StrippedLine(lines, i) == Strip(lines[i + 1])

\* text with every comma kept
KeepCommas(text) == text

\* merged_line.replace(',', '')
RemoveCommas(text) == SelectSeq(text, LAMBDA c : c # ",")

\* line.rstrip(',')
RStripCommas(line) == SubSeq(line, 1, SpanBack(line, Len(line), {","}))

\* a test that takes every line with a colon for the start of a merge
StartsMergeAnyColon(line) == Contains(line, ":")

\* ':' in line and not re.search(pattern, line)
StartsMerge(line) == Contains(line, ":") /\ ~EndsComplete(line)

\* next_line == '' or (':' in next_line and not next_line.startswith(('+', '-')))
LooksLikeStart(next_line) ==
  next_line = <<>> \/ (Contains(next_line, ":") /\ next_line[1] \notin Signs)

\* fixed_lines.append(text); spans records the input lines first..r.i the
\* text was made of and the branch that made it
AppendFixed(r, text, first, merged) ==
  [r EXCEPT !.fixed_lines = Append(@, text),
            !.spans = Append(@, [first |-> first, last |-> r.i, merged |-> merged])]

\* one iteration of the outer loop on the line at i
OuterBody(r, line) ==
  IF StartsMerge(line)
  THEN [r EXCEPT !.merged_line = line, !.first = r.i + 1, !.i = r.i + 1, !.pc = "inner"]
  ELSE AppendFixed([r EXCEPT !.i = r.i + 1], RStripCommas(line), r.i + 1, FALSE)

\* the end of the inner loop: the commas go and the merged line is appended
Finalised(r) ==
  AppendFixed([r EXCEPT !.merged_line = RemoveCommas(@), !.pc = "outer"],
              RemoveCommas(r.merged_line), r.first, TRUE)

\* a break that passes over the line it stops at
BreakSkipping(r) == Finalised([r EXCEPT !.i = @ + 1])

\* break: the line at i is left for the outer loop
Break(r) == Finalised(r)

\* merged_line += ' ' + next_line; i += 1
MergedNext(r, next_line) ==
  [r EXCEPT !.merged_line = @ \o <<" ">> \o next_line, !.i = @ + 1]

\* "Stop merging if line ends with <=, >= or = with number"
AfterMerge(r) == IF EndsComplete(r.merged_line) THEN Finalised(r) ELSE r

\* the test of the inner loop and one iteration of it
InnerBody(r) ==
  IF r.i >= Len(r.lines) THEN Finalised(r)
  ELSE IF LooksLikeStart(StrippedLine(r.lines, r.i)) THEN Break(r)
  ELSE AfterMerge(MergedNext(r, StrippedLine(r.lines, r.i)))

\* the lines of the files the pass is run on
RepairLines ==
  <<<<"c", "0", ":", " ", "x", ",", " ", "+", " ", "y">>,
    <<"c", "1", ":", " ", "2", " ", "x", ",", " ", "+", " ", "y", " ", "<", "=", " ", "4">>,
    <<" ", " ", "+", " ", "z", ",">>,
    <<" ", " ", "+", " ", "w", " ", "<", "=", " ", "3">>,
    <<"S", "u", "b", "j", "e", "c", "t", " ", "T", "o">>,
    <<"B", "o", "u", "n", "d", "s">>,
    <<"E", "n", "d">>,
    <<>>,
    <<" ", "x", " ", "<", "=", " ", "1", ",", ",">>,
    <<"\f">>>>

RepairFiles == UNION {[1..n -> DOMAIN RepairLines] : n \in 0..MaxLines}

\* f.readlines() on the file ks: each line with its line break
FileLines(ks) == [k \in DOMAIN ks |-> RepairLines[ks[k]] \o <<"\n">>]

Repairing(r) ==
  /\ repair' = r
  /\ UNCHANGED <<objective_terms, constraints, bounds, variables, output_file, calls, call>>

\* lines = f.readlines(); fixed_lines = []; i = 0
ReadLines(ks) ==
  /\ repair.pc = "idle"
  /\ Repairing([repair EXCEPT !.pc = "outer", !.lines = FileLines(ks)])

\* while i < len(lines): the line starts a merge or is appended
OuterStep ==
  /\ repair.pc = "outer"
  /\ repair.i < Len(repair.lines)
  /\ Repairing(OuterBody(repair, StrippedLine(repair.lines, repair.i)))

\* the inner while: the next line is appended to merged_line, or the loop ends
InnerStep ==
  /\ repair.pc = "inner"
  /\ Repairing(InnerBody(repair))

\* the outer loop is left; f.write(fixed_line + '\n') for each fixed line
WriteLines ==
  /\ repair.pc = "outer"
  /\ repair.i >= Len(repair.lines)
  /\ Repairing([repair EXCEPT !.pc = "done",
                              !.written = [k \in DOMAIN repair.fixed_lines |->
                                             repair.fixed_lines[k] \o <<"\n">>]])

NextRepair ==
  \/ \E ks \in RepairFiles : ReadLines(ks)
  \/ OuterStep
  \/ InnerStep
  \/ WriteLines

SpecRepair == Init /\ [][NextRepair]_vars

\* the states in which an iteration of a loop is to run: the outer loop's
\* test holds, or control is in the inner loop
LoopRuns ==
  (repair.pc = "outer" /\ repair.i < Len(repair.lines)) \/ repair.pc = "inner"

\* The pass runs on, no statement of it waiting for anything: weak fairness
\* of the write and of the loops' iterations.  The iterations are enabled
\* exactly in the states LoopRuns, and WF_vars(OuterStep \/ InnerStep) is
\* written out with that predicate for its enabling condition.
SpecRepairFair ==
  /\ SpecRepair
  /\ WF_vars(WriteLines)
  /\ ([]<>~LoopRuns \/ []<><<OuterStep \/ InnerStep>>_vars)

(***************************************************************************)
(* Calls of single methods on a freshly constructed converter.  The call   *)
(* record keeps the structured input (src), the text passed (arg) and the  *)
(* value returned (ret).                                                    *)
(***************************************************************************)
\* the method returned ret, having added the names vs to self.variables
Returned(op, src, arg, ret, vs) ==
  /\ call' = [op |-> op, src |-> src, arg |-> arg, ret |-> ret, prev |-> <<>>]
  /\ variables' = variables \cup vs
  /\ UNCHANGED <<objective_terms, constraints, bounds, output_file, calls, repair>>

\* variable tokens: every text of at most MaxTokLen of these characters
TokenChars == {"w", "[", "]", "1", "_"}
Tokens == UNION {[1..n -> TokenChars] : n \in 0..MaxTokLen}

\* self._normalize_var_name(tok)
CallNormalizeVarName(tok) ==
  /\ call = NoCall
  /\ Returned("_normalize_var_name", tok, tok, NormalizeVarName(tok), {})

\* The magnitudes and variables objective texts are built from, each with
\* the value the specification gives it: the number a magnitude denotes (1
\* for a term written without one) and the normalized name of a variable.
Magnitudes ==
  <<[text |-> <<>>, value |-> Scale],
    [text |-> <<"2">>, value |-> 2 * Scale],
    [text |-> <<"3">>, value |-> 3 * Scale],
    [text |-> <<"1", ".", "5", "e", "-", "3">>, value |-> (15 * Scale) \div 10000]>>
VarNames ==
  <<[text |-> <<"x", "_", "1">>, key |-> <<"x", "_", "1">>],
    [text |-> <<"w", "[", "1", "]">>, key |-> <<"w", "_", "1">>]>>

\* an objective term: whether it is subtracted, its magnitude and its variable
ObjTerms ==
  [neg : BOOLEAN, mag : DOMAIN Magnitudes, var : DOMAIN VarNames]

\* the sum of the coefficients the first n terms give the variable key
RECURSIVE SumOf(_, _, _)
SumOf(ts, key, n) ==
  IF n = 0 THEN 0
  ELSE SumOf(ts, key, n - 1)
         + (IF VarNames[ts[n].var].key # key THEN 0
            ELSE IF ts[n].neg THEN -Magnitudes[ts[n].mag].value
            ELSE Magnitudes[ts[n].mag].value)

\* every sum the terms accumulate is a float of a whole number of units
Held(ts) ==
  \A n \in 2..Len(ts) :
    LET key == VarNames[ts[n].var].key
        a == SumOf(ts, key, n - 1)
        b == SumOf(ts, key, n) - a
    IN  a = 0 \/ a = -b \/ SumInUnits(a, b)

\* the objectives parsed: up to MaxObjTerms terms whose sums the model holds
TermLists == {ts \in UNION {[1..n -> ObjTerms] : n \in 1..MaxObjTerms} : Held(ts)}

\* term i of an objective text as it is written
TermText(ts, i) ==
  (IF i = 1 THEN (IF ts[i].neg THEN <<"-", " ">> ELSE <<>>)
   ELSE (IF ts[i].neg THEN <<" ", "-", " ">> ELSE <<" ", "+", " ">>))
    \o Magnitudes[ts[i].mag].text
    \o (IF Magnitudes[ts[i].mag].text = <<>> THEN <<>> ELSE <<" ">>)
    \o VarNames[ts[i].var].text

ObjectiveText(ts) == Concat([i \in DOMAIN ts |-> TermText(ts, i)])

ObjectiveReturned(ts, text, r) == Returned("_parse_objective", ts, text, r.terms, r.vars)

\* self._parse_objective(text)
CallParseObjective(ts) ==
  /\ call = NoCall
  /\ ObjectiveReturned(ts, ObjectiveText(ts), ParseObjective(ObjectiveText(ts)))

\* constraint expressions: a alone (op1 = 0), a op1 b, or a op1 b op2 c, with
\* or without blanks around the operators
LeftTexts ==
  <<<<>>, <<"x">>, <<"2", " ", "x", " ", "+", " ", "y">>,
    <<"1", ".", "5", "e", "-", "3", " ", "x", "_", "1">>>>
MiddleTexts == <<<<>>, <<"1">>, <<"y">>>>
RightTexts == <<<<>>, <<"2">>>>
Operators == <<LE, GE, EQ>>

Expressions ==
  {[a |-> a, op1 |-> o1, b |-> b, op2 |-> o2, c |-> c, spaced |-> sp] :
     a \in DOMAIN LeftTexts, o1 \in {0} \cup DOMAIN Operators, b \in DOMAIN MiddleTexts,
     o2 \in {0} \cup DOMAIN Operators, c \in DOMAIN RightTexts, sp \in BOOLEAN}

Blank(e) == IF e.spaced THEN <<" ">> ELSE <<>>

ExpressionText(e) ==
  LeftTexts[e.a]
    \o (IF e.op1 = 0 THEN <<>>
        ELSE Blank(e) \o Operators[e.op1] \o Blank(e) \o MiddleTexts[e.b])
    \o (IF e.op2 = 0 THEN <<>>
        ELSE Blank(e) \o Operators[e.op2] \o Blank(e) \o RightTexts[e.c])

SingleReturned(e, text, r) ==
  Returned("_parse_single_constraint_fixed", e, text, r.constraint, r.vars)

\* self._parse_single_constraint_fixed("c0", text)
CallParseSingleConstraintFixed(e) ==
  /\ call = NoCall
  /\ e.op1 = 0 => (e.b = 1 /\ e.op2 = 0 /\ ~e.spaced)
  /\ e.op2 = 0 => e.c = 1
  /\ SingleReturned(e, ExpressionText(e),
                    ParseSingleConstraintFixed(ConstraintName(0), ExpressionText(e)))

\* The expressions constraints texts are built from, each in three pieces
\* that a line break may separate, with the record the specification gives
\* the expression.
Pieces ==
  <<[pieces |-> <<<<"w", "[", "0", "]">>, <<"+", " ", "w", "[", "1", "]">>, <<"=", " ", "1">>>>,
     terms |-> <<[var |-> <<"w", "_", "0">>, coeff |-> Scale], [var |-> <<"w", "_", "1">>, coeff |-> Scale]>>,
     sense |-> EQ, rhs |-> Scale],
    [pieces |-> <<<<"2", " ", "x">>, <<"-", " ", "3", " ", "y">>, <<"<", "=", " ", "4">>>>,
     terms |-> <<[var |-> <<"x">>, coeff |-> 2 * Scale],
                 [var |-> <<"y">>, coeff |-> -3 * Scale]>>,
     sense |-> LE, rhs |-> 4 * Scale],
    [pieces |-> <<<<"x">>, <<">", "=">>, <<"-", "1">>>>,
     terms |-> <<[var |-> <<"x">>, coeff |-> Scale]>>,
     sense |-> GE, rhs |-> -Scale]>>

\* the gaps between the pieces of an expression
Gaps == {1, 2}

\* a constraint as written: its expression and the gaps that hold a line break
Layouts == [e : DOMAIN Pieces, breaks : SUBSET Gaps]
LayoutLists == UNION {[1..n -> Layouts] : n \in 1..MaxCons}

\* what separates piece g of a constraint from the next
GapText(l, g) == IF g \in l.breaks THEN <<"\n", " ", " ">> ELSE <<" ">>

\* constraint i (from 1) as written, on one line or on several
LayoutText(ls, i) ==
  ConstraintName(i - 1) \o <<":", " ">>
    \o Pieces[ls[i].e].pieces[1] \o GapText(ls[i], 1)
    \o Pieces[ls[i].e].pieces[2] \o GapText(ls[i], 2)
    \o Pieces[ls[i].e].pieces[3] \o <<"\n">>

ConstraintsText(ls) == Concat([i \in DOMAIN ls |-> LayoutText(ls, i)])

ConstraintsReturned(ls, text, r) ==
  Returned("_parse_constraints_fixed", ls, text, r.constraints, r.vars)

\* self._parse_constraints_fixed(text)
CallParseConstraintsFixed(ls) ==
  /\ call = NoCall
  /\ ConstraintsReturned(ls, ConstraintsText(ls), ParseConstraintsFixed(ConstraintsText(ls)))

\* The lines constraints texts are made of: for each its text, whether it
\* has a colon and no leading sign, and for those that do the text before
\* the first colon and the text after it.
LineKinds ==
  <<[text |-> <<"c", "0", ":", " ", "x", " ", "<", "=", " ", "1">>, start |-> TRUE, name |-> <<"c", "0">>, expr |-> <<"x", " ", "<", "=", " ", "1">>],
    [text |-> <<"c", "1", ":">>, start |-> TRUE, name |-> <<"c", "1">>, expr |-> <<>>],
    [text |-> <<"+", " ", "y", " ", "<", "=", " ", "2">>, start |-> FALSE, name |-> <<>>, expr |-> <<>>],
    [text |-> <<":", " ", "x", " ", "=", " ", "1">>, start |-> TRUE, name |-> <<>>, expr |-> <<"x", " ", "=", " ", "1">>],
    [text |-> <<"y", " ", ">", "=", " ", "0">>, start |-> FALSE, name |-> <<>>, expr |-> <<>>],
    [text |-> <<"-", " ", "z", ":", " ", "3">>, start |-> FALSE, name |-> <<>>, expr |-> <<>>],
    [text |-> <<>>, start |-> FALSE, name |-> <<>>, expr |-> <<>>]>>

LineLists == UNION {[1..n -> DOMAIN LineKinds] : n \in 1..MaxTextLines}

\* the lines of ks, each ended by a line break
LinesText(ks) == Concat([i \in DOMAIN ks |-> LineKinds[ks[i]].text \o <<"\n">>])

\* self._parse_constraints_fixed(text), the text given line by line
CallParseConstraintLines(ks) ==
  /\ call = NoCall
  /\ Returned("_parse_constraints_fixed lines", ks, LinesText(ks),
              ParseConstraintsFixed(LinesText(ks)).constraints,
              ParseConstraintsFixed(LinesText(ks)).vars)

\* coefficient texts as the term patterns capture them: a sign, blanks, the
\* digits, a point with or without digits, an exponent
CoeffSigns == <<<<>>, <<"+">>, <<"-">>>>
CoeffGaps == <<<<>>, <<" ">>, <<"\t">>, <<"\f">>, <<"">>, <<"">>>>
CoeffInts == <<<<>>, <<"2">>, <<"1", "5">>>>
CoeffFracs == <<<<>>, <<".">>, <<".", "5">>>>
CoeffExps == <<<<>>, <<"e", "1">>, <<"E", "-", "3">>>>

CoeffTexts ==
  [sign : DOMAIN CoeffSigns, gap : DOMAIN CoeffGaps, int : DOMAIN CoeffInts,
   frac : DOMAIN CoeffFracs, exp : DOMAIN CoeffExps]

CoeffText(t) ==
  CoeffSigns[t.sign] \o CoeffGaps[t.gap] \o CoeffInts[t.int] \o CoeffFracs[t.frac]
    \o CoeffExps[t.exp]

\* self._parse_coefficient(text); the linear pattern captures no exponent,
\* the objective pattern one that follows digits
CallParseCoefficient(t) ==
  /\ call = NoCall
  /\ t.exp # 1 => (t.int # 1 /\ t.frac # 2)
  /\ Returned("_parse_coefficient", t, CoeffText(t), ParseCoefficient(CoeffText(t)), {})

\* The files converted one by one: an objective line, one constraint and a
\* bounds section, each present or not.  The first text of each list is the
\* absent one.
CaseObjectives ==
  <<<<>>,
    <<"2", " ", "x", " ", "+", " ", "3", " ", "y">>,
    <<"-", " ", "2", " ", "x", " ", "-", " ", "3", " ", "y">>,
    <<"-", " ", "1", " ", "x", " ", "+", " ", "1", " ", "y">>,
    <<"2", " ", "x", " ", "-", " ", "2", " ", "x", " ", "+", " ", "3", " ", "y">>,
    <<"2", " ", "x", " ", "-", " ", "2", " ", "x", " ", "-", " ", "3", " ", "y">>,
    <<"2", " ", "s", "p", "e", "n", "d", "_", "1", " ", "+", " ", "3", " ", "y">>>>
CaseConstraints ==
  <<<<>>,
    <<"c", "0", ":", " ", "2", " ", "x", " ", "+", " ", "3", " ", "y", " ", "<", "=", " ", "4">>,
    <<"c", "0", ":", " ", "-", " ", "x", " ", "-", " ", "2", " ", "y", " ", ">", "=", " ", "1">>,
    <<"c", "0", ":", " ", "x", " ", "-", " ", "x", " ", "+", " ", "y", " ", "=", " ", "1">>,
    <<"c", "0", ":", " ", "2", " ", "x", " ", "-", " ", "2", " ", "x", " ", "-", " ", "y", " ", "=", " ", "1">>,
    <<"c", "0", ":", " ", "s", "p", "e", "n", "d", "_", "1", " ", "+", " ", "y", " ", "<", "=", " ", "4">>,
    <<"m", "a", "x", "_", "c", "a", "r", "b", "o", "n", ":", " ", "2", " ", "x", " ", "<", "=", " ", "1">>>>
CaseBounds ==
  <<"b", "o", "u", "n", "d", "s", "\n", " ", "x", " ", "<", "=", " ", "4", "\n">>

CaseFiles == [obj : DOMAIN CaseObjectives, con : DOMAIN CaseConstraints, bnd : BOOLEAN]

\* the keyword that introduces objective o: the five keywords in turn
CaseKeyword(o) == ObjectiveOpen[((o - 2) % Len(ObjectiveOpen)) + 1]

\* the line end of the file with objective o: the three line ends in turn
LineEnds == <<<<"\n">>, <<"\r", "\n">>, <<"\r">>>>
CaseLineEnd(o) == LineEnds[(o % Len(LineEnds)) + 1]

CaseFileOf(f) ==
  (IF f.obj = 1 THEN <<>>
   ELSE CaseKeyword(f.obj) \o CaseLineEnd(f.obj) \o KwObj \o <<":", " ">>
          \o CaseObjectives[f.obj] \o CaseLineEnd(f.obj))
  \o (IF f.con = 1 THEN <<>>
      ELSE KwSubjectTo \o CaseLineEnd(f.obj) \o CaseConstraints[f.con]
             \o CaseLineEnd(f.obj))
  \o (IF f.bnd THEN CaseBounds ELSE <<>>)
  \o KwEnd \o CaseLineEnd(f.obj)

\* converter.convert_file(file, output_file)
CallConvertFile(f) ==
  /\ call = NoCall
  /\ Converted(ParseLpFile(Converter, CaseFileOf(f)))
  /\ calls' = calls + 1
  /\ call' = [op |-> "convert_file", src |-> f, arg |-> CaseFileOf(f),
              ret |-> <<>>, prev |-> <<>>]

\* one method is called, on the converter as constructed (call = NoCall)
NextUnit ==
  \/ \E tok \in Tokens : CallNormalizeVarName(tok)
  \/ \E ts \in TermLists : CallParseObjective(ts)
  \/ \E e \in Expressions : CallParseSingleConstraintFixed(e)
  \/ \E ls \in LayoutLists : CallParseConstraintsFixed(ls)
  \/ \E ks \in LineLists : CallParseConstraintLines(ks)
  \/ \E f \in CaseFiles : CallConvertFile(f)
  \/ \E t \in CoeffTexts : CallParseCoefficient(t)

SpecUnit == Init /\ [][NextUnit]_vars

(***************************************************************************)
(* Properties of convert_file and main, stated over Spec.                  *)
(***************************************************************************)
\* C1: round-trip stability.  When main converts the file the converter
\* wrote, the file it writes has the same content, byte for byte.
C1_RoundTripStable ==
  call.op = "reconvert" => output_file.content = call.arg

\* the file the code writes for the end-to-end scenario
ScenarioOutput ==
  <<"m", "i", "n", "i", "m", "i", "z", "e", "\n", "o", "b", "j", ":", " ", "2", ".",
    "0", " ", "w", "_", "0", " ", "+", " ", "3", ".", "0", " ", "w", "_", "1", "\n",
    "\n", "s", "u", "b", "j", "e", "c", "t", " ", "t", "o", "\n", "c", "0", ":", " ",
    "w", "_", "0", " ", "+", " ", "w", "_", "1", " ", "=", " ", "1", ".", "0", "\n",
    "\n", "e", "n", "d", "\n">>

\* the file the specification shows for it
ScenarioOutputAsSpecified ==
  <<"m", "i", "n", "i", "m", "i", "z", "e", "\n", "o", "b", "j", ":", " ", "2", " ",
    "w", "_", "0", " ", "+", " ", "3", " ", "w", "_", "1", "\n", "\n", "s", "u", "b",
    "j", "e", "c", "t", " ", "t", "o", "\n", "c", "0", ":", " ", "w", "_", "0", " ",
    "+", " ", "w", "_", "1", " ", "=", " ", "1", "\n", "\n", "e", "n", "d", "\n">>

\* the indices of a text where a number starts
NumberStarts(s) ==
  {i \in DOMAIN s : s[i] \in Digits /\ (i = 1 \/ s[i - 1] \in {" ", "-"})}

\* the number starting at index i has a point and a digit after its digits
HasFraction(s, i) ==
  /\ Span(s, i, Digits) < Len(s)
  /\ s[Span(s, i, Digits)] = "."
  /\ s[Span(s, i, Digits) + 1] \in Digits

\* C2 (as the code has it): convert_file on the end-to-end scenario writes
\* exactly minimize / obj: 2.0 w_0 + 3.0 w_1 / blank / subject to /
\* c0: w_0 + w_1 = 1.0 / blank / end, and every number of every file written
\* has a fractional part: an integral value is written with .0 .
C2_ScenarioOutput ==
  /\ (call.op = "convert_file" /\ call.src = ScenarioShape)
       => output_file.content = ScenarioOutput
  /\ output_file.exists
       => \A i \in NumberStarts(output_file.content) :
            HasFraction(output_file.content, i)

C2_Witness ==
  /\ call.op = "convert_file"
  /\ call.src = ScenarioShape
  /\ output_file.content = ScenarioOutput

\* C2 (as the specification has it): the scenario's output shows the numbers
\* as 2, 3 and 1, with no fractional part added.
C2_AsSpecified ==
  (call.op = "convert_file" /\ call.src = ScenarioShape)
    => output_file.content = ScenarioOutputAsSpecified

\* C3: parsing the end-to-end scenario gives objective_terms {w_0: 2.0,
\* w_1: 3.0} and exactly one constraint, c0, with terms {w_0: 1.0, w_1: 1.0},
\* sense = and rhs 1.0.
C3_ScenarioParse ==
  (call.op = "convert_file" /\ call.arg = ScenarioFile)
    => /\ objective_terms = <<[var |-> <<"w", "_", "0">>, coeff |-> 2 * Scale],
                              [var |-> <<"w", "_", "1">>, coeff |-> 3 * Scale]>>
       /\ constraints = <<[name |-> <<"c", "0">>,
                           terms |-> <<[var |-> <<"w", "_", "0">>, coeff |-> Scale],
                                       [var |-> <<"w", "_", "1">>, coeff |-> Scale]>>,
                           sense |-> <<"=">>,
                           rhs |-> Scale]>>

C3_Witness ==
  /\ call.op = "convert_file"
  /\ call.arg = ScenarioFile
  /\ Len(constraints) = 1
  /\ Len(objective_terms) = 2

\* the constraint lines of a written file: the lines with a colon, but for obj:
ConstraintLinesOf(content) ==
  SelectSeq(SplitOn(content, "\n"),
            LAMBDA l : Contains(l, ":") /\ ~StartsAt(l, 1, <<"o", "b", "j", ":">>))

\* C4: a file whose constraints section holds n >= 1 named constraints, each
\* starting on its own line, gives exactly n records, named as in the input
\* and in its order, and the written file has one line for each, in that order.
C4_OneRecordPerConstraint ==
  (call.op = "convert_file" /\ call.src.n >= 1)
    => /\ Len(constraints) = call.src.n
       /\ \A i \in 1..call.src.n : constraints[i].name = ConstraintName(i - 1)
       /\ Len(ConstraintLinesOf(output_file.content)) = call.src.n
       /\ \A i \in 1..call.src.n :
            StartsAt(ConstraintLinesOf(output_file.content)[i], 1,
                     ConstraintName(i - 1) \o <<":">>)

\* C10: every key of objective_terms and of the terms of every record in
\* constraints is a member of variables, after any sequence of conversions.
C10_KeysInVariables ==
  /\ Keys(objective_terms) \subseteq variables
  /\ \A i \in DOMAIN constraints : Keys(constraints[i].terms) \subseteq variables

C10_Witness ==
  /\ calls > 1
  /\ objective_terms # <<>>
  /\ constraints # <<>>
  /\ Keys(objective_terms) # variables

\* C15: when there is no file at the input path, convert_file raises and
\* main returns before anything is written: the output file is not created
\* and, when it is there already, keeps its content.
C15_MissingInputNoWrite ==
  [][call'.op \in {"convert_file raised", "main returned"}
       => output_file' = output_file]_vars

C15_Witness ==
  /\ call.op = "convert_file raised"
  /\ calls > 1
  /\ output_file.exists
  /\ constraints # <<>>

(***************************************************************************)
(* Properties of the single methods, stated over SpecUnit.                 *)
(***************************************************************************)
\* the record the specification gives constraint i of a constraints text
ExpectedRecord(ls, i) ==
  [name |-> ConstraintName(i - 1), terms |-> Pieces[ls[i].e].terms,
   sense |-> Pieces[ls[i].e].sense, rhs |-> Pieces[ls[i].e].rhs]

\* the same constraints, each written on a single line
Unbroken(ls) == [i \in DOMAIN ls |-> [ls[i] EXCEPT !.breaks = {}]]

\* C5: a constraint whose expression is spread over two or more lines parses
\* to the same record (name, terms, sense, rhs) as the expression written on
\* a single line.
C5_MultiLineMerge ==
  call.op = "_parse_constraints_fixed"
    => /\ call.ret = ParseConstraintsFixed(ConstraintsText(Unbroken(call.src))).constraints
       /\ call.ret = [i \in DOMAIN call.src |-> ExpectedRecord(call.src, i)]

C5_Witness ==
  /\ call.op = "_parse_constraints_fixed"
  /\ \E i \in DOMAIN call.src : call.src[i].breaks = Gaps
  /\ Len(call.ret) = Len(call.src)
  /\ Contains(call.arg, "\n")

\* the normalized names an objective text mentions
MentionedKeys(ts) == {VarNames[ts[i].var].key : i \in DOMAIN ts}

\* the terms of an objective text that mention the variable key
Mentions(ts, key) == {i \in DOMAIN ts : VarNames[ts[i].var].key = key}

\* C6: when the objective text mentions the same (normalized) variable
\* several times, the coefficients of all its mentions are summed into its
\* one entry.
C6_TermAccumulation ==
  call.op = "_parse_objective"
    => \A key \in MentionedKeys(call.src) :
         Cardinality(Mentions(call.src, key)) > 1
           => /\ key \in Keys(call.ret)
              /\ DictGet(call.ret, key) = SumOf(call.src, key, Len(call.src))

\* every term of the text has a magnitude written
Explicit(ts) == \A i \in DOMAIN ts : Magnitudes[ts[i].mag].text # <<>>

\* C7: in the objective a number with an exponent suffix is consumed as one
\* coefficient: 1.5e-3 x_1 parses to the one term x_1 with coefficient
\* 0.0015, and in general the terms parsed are the terms written, so that no
\* variable e is added to objective_terms or to variables.
C7_ExponentInObjective ==
  (call.op = "_parse_objective" /\ Explicit(call.src))
    => /\ Keys(call.ret) = MentionedKeys(call.src)
       /\ Len(call.ret) = Cardinality(MentionedKeys(call.src))
       /\ \A key \in MentionedKeys(call.src) :
            DictGet(call.ret, key) = SumOf(call.src, key, Len(call.src))
       /\ variables = MentionedKeys(call.src)
       /\ <<"e">> \notin variables
       /\ call.arg = <<"1", ".", "5", "e", "-", "3", " ", "x", "_", "1">>
            => call.ret = <<[var |-> <<"x", "_", "1">>, coeff |-> (15 * Scale) \div 10000]>>

C7_Witness ==
  /\ call.op = "_parse_objective"
  /\ call.arg = <<"1", ".", "5", "e", "-", "3", " ", "x", "_", "1">>
  /\ call.ret = <<[var |-> <<"x", "_", "1">>, coeff |-> (15 * Scale) \div 10000]>>
  /\ variables = {<<"x", "_", "1">>}

\* the text holds an integer index in brackets: [, one digit or more, ]
HasBracketIndex(s) ==
  \E i, j \in DOMAIN s :
    /\ s[i] = "[" /\ s[j] = "]" /\ j > i + 1
    /\ \A k \in (i + 1)..(j - 1) : s[k] \in Digits

\* C8: the normalizer is idempotent, and returns unchanged a name that
\* holds no bracketed integer index.
C8_NormalizeIdempotent ==
  call.op = "_normalize_var_name"
    => /\ NormalizeVarName(call.ret) = call.ret
       /\ ~HasBracketIndex(call.arg) => call.ret = call.arg

C8_Witness ==
  /\ call.op = "_normalize_var_name"
  /\ call.arg = <<"w", "[", "1", "]">>
  /\ call.ret = <<"w", "_", "1">>

\* the operator occurs in the text
Occurs(s, op) == \E k \in 1..Len(s) : StartsAt(s, k, op)

\* the operator occurs in the text with text before it and after it
TextBothSides(s, op) == \E k \in 2..(Len(s) - Len(op)) : StartsAt(s, k, op)

\* C9: an expression that contains <= with text on both sides gets the
\* sense <=, never =; one without <= that contains >= with text on both
\* sides gets the sense >=.
C9_SensePrecedence ==
  call.op = "_parse_single_constraint_fixed"
    => /\ TextBothSides(call.arg, LE) => call.ret.sense = LE
       /\ (~Occurs(call.arg, LE) /\ TextBothSides(call.arg, GE))
            => call.ret.sense = GE

C9_Witness ==
  /\ call.op = "_parse_single_constraint_fixed"
  /\ call.src.op1 # 0
  /\ Operators[call.src.op1] = EQ
  /\ call.src.op2 # 0
  /\ TextBothSides(call.arg, LE)
  /\ call.ret.sense = LE
  /\ call.ret.name = ConstraintName(0)

\* the terms the specification gives each of LeftTexts but the last, whose
\* exponent is the subject of C19
LeftTerms ==
  <<<<>>,
    <<[var |-> <<"x">>, coeff |-> Scale]>>,
    <<[var |-> <<"x">>, coeff |-> 2 * Scale], [var |-> <<"y">>, coeff |-> Scale]>>>>

\* the same left text followed by <= 1
AsLeftHandSide(e) ==
  [e EXCEPT !.op1 = 1, !.b = 2, !.spaced = TRUE]

\* C11: an expression in which no relational operator occurs is returned as
\* a record, with sense = and rhs 0.0 and with the terms its whole text has
\* as a left-hand side; the call adds these terms' names to variables.
C11_NoOperatorDefaults ==
  (call.op = "_parse_single_constraint_fixed" /\ ~Contains(call.arg, "="))
    => /\ call.ret.name = ConstraintName(0)
       /\ call.ret.sense = EQ
       /\ call.ret.rhs = 0
       /\ call.ret.terms
            = ParseSingleConstraintFixed(ConstraintName(0),
                                         ExpressionText(AsLeftHandSide(call.src))).constraint.terms
       /\ call.src.a \in DOMAIN LeftTerms => call.ret.terms = LeftTerms[call.src.a]
       /\ variables = Keys(call.ret.terms)

C11_Witness ==
  /\ call.op = "_parse_single_constraint_fixed"
  /\ call.src.op1 = 0
  /\ call.arg = LeftTexts[3]
  /\ call.ret.sense = EQ
  /\ call.ret.rhs = 0
  /\ call.ret.terms = LeftTerms[3]

(***************************************************************************)
(* Properties of the writer, stated over SpecUnit: convert_file on a file  *)
(* of CaseFiles, read against the converter's attributes after the call.   *)
(***************************************************************************)
\* the lines of the written file, and its objective line
WrittenLines == SplitOn(output_file.content, "\n")
ObjectiveLines == SelectSeq(WrittenLines, LAMBDA l : StartsAt(l, 1, <<"o", "b", "j", ":", " ">>))

\* the terms the writer emits: those with a non-zero coefficient, in order
Emitted(terms) == SelectSeq(terms, LAMBDA t : t.coeff # 0)

\* magnitude and variable of a term: the bare name when the magnitude is 1
MagnitudeVar(t) ==
  IF Abs(t.coeff) = Scale THEN t.var
  ELSE FormatFloat(Abs(t.coeff)) \o <<" ">> \o t.var

\* term i of the emitted terms ts under the sign rule
SignRuleTerm(ts, i) ==
  (IF i = 1 THEN (IF ts[i].coeff < 0 THEN <<"-">> ELSE <<>>)
   ELSE (IF ts[i].coeff < 0 THEN <<" ", "-", " ">> ELSE <<" ", "+", " ">>))
    \o MagnitudeVar(ts[i])

SignRuleList(ts) == Concat([i \in DOMAIN ts |-> SignRuleTerm(ts, i)])

\* the line of constraint c with its term list under the sign rule
SignRuleLine(c) ==
  c.name \o <<":", " ">> \o SignRuleList(Emitted(c.terms)) \o <<" ">> \o c.sense
    \o <<" ">> \o FormatFloat(c.rhs)

\* C12: writer sign rule.  In the objective line and in every constraint
\* line the first emitted term begins with one - and its magnitude when it
\* is negative and with no sign otherwise, every later term is preceded by
\* " + " or " - " and shows its absolute value, and a magnitude of 1 is
\* written as the bare variable.
C12_WriterSignRule ==
  call.op = "convert_file"
    => /\ objective_terms # <<>>
            => ObjectiveLines
                 = <<KwObj \o <<":", " ">> \o SignRuleList(Emitted(objective_terms))>>
       /\ ConstraintLinesOf(output_file.content)
            = [i \in DOMAIN constraints |-> SignRuleLine(constraints[i])]

\* the separators " + " and " - " of a line
Separators(l) ==
  {k \in 1..(Len(l) - 2) : l[k] = " " /\ l[k + 1] \in Signs /\ l[k + 2] = " "}

\* the line shows exactly the emitted terms of the mapping, the first of
\* them right after the line's first blank
ShowsEmitted(l, terms) ==
  /\ \A i \in DOMAIN terms : Contains(l, terms[i].var[1]) <=> terms[i].coeff # 0
  /\ Emitted(terms) # <<>>
       => /\ Cardinality(Separators(l)) = Len(Emitted(terms)) - 1
          /\ l[IndexOf(l, 1, " ") + 1] # " "

\* C13: a term whose coefficient is 0 is not written, in the objective and
\* in each constraint, and the first term written has no separator before
\* it, wherever it stands in the mapping.
C13_ZeroTermsOmitted ==
  call.op = "convert_file"
    => /\ objective_terms # <<>>
            => /\ Len(ObjectiveLines) = 1
               /\ ShowsEmitted(ObjectiveLines[1], objective_terms)
       /\ Len(ConstraintLinesOf(output_file.content)) = Len(constraints)
       /\ \A i \in DOMAIN constraints :
            ShowsEmitted(ConstraintLinesOf(output_file.content)[i], constraints[i].terms)

C13_Witness ==
  /\ call.op = "convert_file"
  /\ Len(objective_terms) = 2
  /\ objective_terms[1].coeff = 0
  /\ objective_terms[2].coeff > 0
  /\ ObjectiveLines = <<<<"o", "b", "j", ":", " ", "3", ".", "0", " ", "y">>>>
  /\ Len(constraints) = 1
  /\ constraints[1].terms[1].coeff = 0
  /\ Len(Emitted(constraints[1].terms)) = 1

\* the lines of the written file that open a block or close the file
BlockLines ==
  SelectSeq(WrittenLines,
            LAMBDA l : l \in {KwMinimize, KwMaximize, KwSubjectTo, KwBounds, KwEnd})

\* C14: whatever the input, a bounds section included, bounds stays empty
\* and the written file has no bounds section: its blocks are the objective
\* block, the constraints block and the line end, in that order.
C14_NoBoundsSection ==
  /\ bounds = <<>>
  /\ output_file.exists
       => /\ \A i \in DOMAIN WrittenLines :
               \A k \in 1..Len(WrittenLines[i]) : ~StartsAtFold(WrittenLines[i], k, KwBounds)
          /\ BlockLines
               = (IF objective_terms # <<>> THEN <<KwMinimize>> ELSE <<>>)
                   \o (IF constraints # <<>> THEN <<KwSubjectTo>> ELSE <<>>)
                   \o <<KwEnd>>

C14_Witness ==
  /\ call.op = "convert_file"
  /\ call.src.bnd
  /\ call.src.obj # 1
  /\ call.src.con # 1
  /\ bounds = <<>>
  /\ BlockLines = <<KwMinimize, KwSubjectTo, KwEnd>>

(***************************************************************************)
(* Properties of the coefficient and term extraction, over SpecUnit.       *)
(***************************************************************************)
\* the text has digits or a point: it is more than a sign
HasNumber(t) == t.int # 1 \/ t.frac # 1

\* the text is no float: a point with no digit, or whitespace other than blanks after
\* the sign
Malformed(t) ==
  \/ t.int = 1 /\ t.frac = 2
  \/ t.sign # 1 /\ t.gap >= 3

\* the number a well-formed text denotes, in units of 10^-FracDigits
IntTenths == <<0, 20, 150>>
FracTenths == <<0, 0, 5>>
Denoted(t) ==
  LET tenths == IntTenths[t.int] + FracTenths[t.frac]
      value == IF t.exp = 1 THEN (tenths * Scale) \div 10
               ELSE IF t.exp = 2 THEN tenths * Scale
               ELSE (tenths * Scale) \div 10000
  IN  IF t.sign = 3 THEN -value ELSE value

\* C17: _parse_coefficient returns a number for every text a term pattern
\* captures: 1.0 for an empty text or +, -1.0 for - alone, the value of a
\* well-formed number, and 1.0 for a malformed one.
C17_CoefficientFallback ==
  call.op = "_parse_coefficient"
    => call.ret = (IF ~HasNumber(call.src) THEN (IF call.src.sign = 3 THEN -Scale ELSE Scale)
                   ELSE IF Malformed(call.src) THEN Scale
                   ELSE Denoted(call.src))

C17_Witness ==
  /\ call.op = "_parse_coefficient"
  /\ call.arg = <<"-", ".">>
  /\ call.ret = Scale

\* C18: the magnitude of an objective term is optional.  A term written
\* without a number counts with coefficient 1.0, or -1.0 after -, and its
\* variable is in objective_terms and in variables: no term is lost.
C18_MagnitudeOptional ==
  (call.op = "_parse_objective" /\ ~Explicit(call.src))
    => /\ Keys(call.ret) = MentionedKeys(call.src)
       /\ \A key \in MentionedKeys(call.src) :
            key \in Keys(call.ret)
              => DictGet(call.ret, key) = SumOf(call.src, key, Len(call.src))
       /\ variables = MentionedKeys(call.src)

\* C19: a constraint's left-hand side takes a number with an exponent as
\* one coefficient: 1.5e-3 x_1 gives the terms {x_1: 0.0015}, and no
\* variable e in the terms or in variables.
C19_ExponentInConstraint ==
  (call.op = "_parse_single_constraint_fixed" /\ call.src.a = 4)
    => /\ call.ret.terms = <<[var |-> <<"x", "_", "1">>, coeff |-> (15 * Scale) \div 10000]>>
       /\ <<"e">> \notin Keys(call.ret.terms)
       /\ <<"e">> \notin variables

\* the expression is a op b with text on both sides, and b is no number
NonNumericRight(e) == e.a # 1 /\ e.op1 # 0 /\ e.op2 = 0 /\ e.b = 3

\* C20 (as the specification has it): a pattern whose right text is no
\* float does not count as matched, so that x <= y gets the defaults, sense
\* = and rhs 0.0.
C20_AsSpecified ==
  (call.op = "_parse_single_constraint_fixed" /\ NonNumericRight(call.src))
    => /\ call.ret.sense = EQ
       /\ call.ret.rhs = 0

\* C20 (as the code has it): a pattern counts as matched whenever its
\* operator has text on both sides.  x <= y gets the sense <= and the
\* terms of x; the right text not being a float only sets rhs to 0.0.
C20_NonNumericRightKeepsSense ==
  (call.op = "_parse_single_constraint_fixed" /\ NonNumericRight(call.src))
    => /\ call.ret.sense = Operators[call.src.op1]
       /\ call.ret.rhs = 0
       /\ call.src.a \in DOMAIN LeftTerms => call.ret.terms = LeftTerms[call.src.a]

C20_Witness ==
  /\ call.op = "_parse_single_constraint_fixed"
  /\ call.arg = <<"x", " ", "<", "=", " ", "y">>
  /\ call.ret.sense = LE
  /\ call.ret.rhs = 0
  /\ call.ret.terms = LeftTerms[2]

\* the terms of each of the first three LeftTexts followed by an operator
\* and y, all taken as one left-hand side
LeftTermsAndY ==
  <<<<[var |-> <<"y">>, coeff |-> Scale]>>,
    <<[var |-> <<"x">>, coeff |-> Scale], [var |-> <<"y">>, coeff |-> Scale]>>,
    <<[var |-> <<"x">>, coeff |-> 2 * Scale], [var |-> <<"y">>, coeff |-> 2 * Scale]>>>>

\* the expression is a op1 b op2 c with text in all three places
TwoOperators(e) ==
  e.a \in {2, 3} /\ e.op1 # 0 /\ e.b # 1 /\ e.op2 # 0 /\ e.c # 1

\* C21 (as the specification has it): of several relational operators the
\* one standing first in the text is honoured: it gives the sense, and the
\* left-hand side is the text before it.
C21_FirstInText ==
  (call.op = "_parse_single_constraint_fixed" /\ TwoOperators(call.src))
    => /\ call.ret.sense = Operators[call.src.op1]
       /\ call.ret.terms = LeftTerms[call.src.a]

\* C21 (as the code has it): of several relational operators the one
\* honoured is the first in the order <=, >=, = of the patterns, at its
\* first occurrence.  When that is the first operator of the text, the
\* left-hand side is the text before it and rhs is 0.0, the text after it
\* being no number; when it is the second, the left-hand side runs up to it,
\* the first operator included, and rhs is the number after it.
C21_FirstPatternHonoured ==
  (call.op = "_parse_single_constraint_fixed" /\ TwoOperators(call.src))
    => IF call.src.op1 <= call.src.op2
       THEN /\ call.ret.sense = Operators[call.src.op1]
            /\ call.ret.terms = LeftTerms[call.src.a]
            /\ call.ret.rhs = 0
       ELSE /\ call.ret.sense = Operators[call.src.op2]
            /\ call.ret.terms = (IF call.src.b = 2 THEN LeftTerms[call.src.a]
                                 ELSE LeftTermsAndY[call.src.a])
            /\ call.ret.rhs = 2 * Scale

C21_Witness ==
  /\ call.op = "_parse_single_constraint_fixed"
  /\ call.arg = <<"x", " ", ">", "=", " ", "y", " ", "<", "=", " ", "2">>
  /\ call.ret.sense = LE
  /\ call.ret.terms = LeftTermsAndY[2]
  /\ call.ret.rhs = 2 * Scale

\* the lines after line i up to the next start line, each after a blank,
\* blank lines left out
RECURSIVE Continued(_, _)
Continued(ks, j) ==
  IF j > Len(ks) \/ LineKinds[ks[j]].start THEN <<>>
  ELSE (IF LineKinds[ks[j]].text = <<>> THEN <<>>
        ELSE <<" ">> \o LineKinds[ks[j]].text) \o Continued(ks, j + 1)

\* the expression of start line i: the text after its colon joined with the
\* non-start lines that follow
JoinedExpression(ks, i) == LineKinds[ks[i]].expr \o Continued(ks, i + 1)

\* start line i has a name and an expression
Named(ks, i) == LineKinds[ks[i]].name # <<>> /\ JoinedExpression(ks, i) # <<>>

\* one record for each start line among the lines in I, in line order
RecordsOf(ks, I) ==
  Concat([i \in DOMAIN ks |->
            IF LineKinds[ks[i]].start /\ i \in I
            THEN <<ParseSingleConstraintFixed(LineKinds[ks[i]].name,
                                              JoinedExpression(ks, i)).constraint>>
            ELSE <<>>])

\* C22 (as the specification has it): every line with a colon and no
\* leading sign yields exactly one record, named by the text before its
\* first colon, whose expression is the text after the colon joined with the
\* following non-start lines; the records come in line order.
C22_EveryStartLine ==
  call.op = "_parse_constraints_fixed lines"
    => call.ret = RecordsOf(call.src, DOMAIN call.src)

\* C22 (as the code has it): a line with a colon and no leading sign yields
\* exactly one record when the text before its first colon is not empty and
\* the text after it, joined with the following non-start lines, is not
\* empty, and no record otherwise; the records come in line order.
C22_NamedStartLines ==
  call.op = "_parse_constraints_fixed lines"
    => call.ret = RecordsOf(call.src, {i \in DOMAIN call.src : Named(call.src, i)})

C22_Witness ==
  /\ call.op = "_parse_constraints_fixed lines"
  /\ call.src = <<1, 2, 3>>
  /\ Len(call.ret) = 2
  /\ call.ret[1].name = <<"c", "0">>
  /\ call.ret[2] = [name |-> <<"c", "1">>, sense |-> LE, rhs |-> 2 * Scale,
                    terms |-> <<[var |-> <<"y">>, coeff |-> Scale]>>]

\* the names w[0] and w[1] as they are stored
StoredIndexed == {<<"w", "_", "0">>, <<"w", "_", "1">>}

\* C23: after any conversion no key of objective_terms, no key of the terms
\* of a constraint and no member of variables holds a bracketed integer
\* index; the tokens w[0] and w[1] of an objective or of a constraint are
\* stored as w_0 and w_1.
C23_NormalizedEverywhere ==
  /\ \A var \in Keys(objective_terms) : ~HasBracketIndex(var)
  /\ \A i \in DOMAIN constraints :
       \A var \in Keys(constraints[i].terms) : ~HasBracketIndex(var)
  /\ \A var \in variables : ~HasBracketIndex(var)
  /\ (call.op = "convert_file" /\ call.src.obj = 2)
       => (StoredIndexed \subseteq Keys(objective_terms) /\ StoredIndexed \subseteq variables)
  /\ (call.op = "convert_file" /\ call.src.n > 0)
       => (StoredIndexed \subseteq Keys(constraints[1].terms)
           /\ StoredIndexed \subseteq variables)

C23_Witness ==
  /\ call.op = "convert_file"
  /\ call.src.obj = 2
  /\ call.src.n > 0
  /\ HasBracketIndex(call.arg)
  /\ variables = StoredIndexed
  /\ Keys(objective_terms) = StoredIndexed
  /\ Keys(constraints[1].terms) = StoredIndexed

\* the identifiers of the case files that hold the letters of a keyword
Spend1 == <<"s", "p", "e", "n", "d", "_", "1">>
MaxCarbon == <<"m", "a", "x", "_", "c", "a", "r", "b", "o", "n">>

\* C24: letters of a keyword inside an identifier neither start nor end a
\* region: the objective 2 spend_1 + 3 y is parsed whole, the constraint
\* c0: spend_1 + y <= 4 is parsed whole, and a file with no objective whose
\* constraint is named max_carbon has no objective terms.
C24_IdentifiersKeepRegions ==
  call.op = "convert_file"
    => /\ call.src.obj = 7
           => objective_terms = <<[var |-> Spend1, coeff |-> 2 * Scale],
                                  [var |-> <<"y">>, coeff |-> 3 * Scale]>>
       /\ call.src.con = 6
           => constraints = <<[name |-> <<"c", "0">>,
                               terms |-> <<[var |-> Spend1, coeff |-> Scale],
                                           [var |-> <<"y">>, coeff |-> Scale]>>,
                               sense |-> LE, rhs |-> 4 * Scale]>>
       /\ (call.src.obj = 1 /\ call.src.con = 7)
           => /\ objective_terms = <<>>
              /\ constraints = <<[name |-> MaxCarbon,
                                  terms |-> <<[var |-> <<"x">>, coeff |-> 2 * Scale]>>,
                                  sense |-> LE, rhs |-> Scale]>>

\* C25: a conversion is determined by its input file alone: after any call
\* of convert_file the objective terms, the constraints and the variables
\* are those a fresh converter parses from the file, and the file written is
\* the one a fresh converter writes.
C25_OneProgramPerConversion ==
  call.op = "convert_file"
    => /\ Converter = ParseLpFile(NewConverter, call.arg)
       /\ output_file.content = WriteVqeFormat(ParseLpFile(NewConverter, call.arg))

\* the terms written in the objectives of the case files: none in the
\* first, and those of the five that follow
WrittenObjectives ==
  <<<<>>,
    <<[var |-> <<"x">>, coeff |-> 2 * Scale], [var |-> <<"y">>, coeff |-> 3 * Scale]>>,
    <<[var |-> <<"x">>, coeff |-> -2 * Scale], [var |-> <<"y">>, coeff |-> -3 * Scale]>>,
    <<[var |-> <<"x">>, coeff |-> -Scale], [var |-> <<"y">>, coeff |-> Scale]>>,
    <<[var |-> <<"x">>, coeff |-> 0], [var |-> <<"y">>, coeff |-> 3 * Scale]>>,
    <<[var |-> <<"x">>, coeff |-> 0], [var |-> <<"y">>, coeff |-> -3 * Scale]>>>>

EndsWith(s, t) == Len(t) <= Len(s) /\ SubSeq(s, Len(s) - Len(t) + 1, Len(s)) = t

\* the terms after the first, each with its separator
LaterTerms(ts) == Concat([i \in 1..(Len(ts) - 1) |-> SignRuleTerm(ts, i + 1)])

\* the text of the line l between obj: and the later terms of ts
FirstTerm(l, ts) == SubSeq(l, 6, Len(l) - Len(LaterTerms(ts)))

\* the line l shows the emitted terms ts with their signs and magnitudes
ShowsCoefficients(l, ts) ==
  /\ EndsWith(l, LaterTerms(ts))
  /\ EndsWith(FirstTerm(l, ts), MagnitudeVar(ts[1]))
  /\ FirstTerm(l, ts)[1] = "-" <=> ts[1].coeff < 0

\* C26: whenever objective_terms is not empty the file written begins with
\* the line minimize and a line that begins obj: , whichever of the five
\* keywords introduced the objective; the terms parsed have the signs they
\* are written with in the input, under maximize and max too, and the line
\* shows each of them with that sign and its magnitude.
C26_HeaderAlwaysMinimize ==
  (call.op = "convert_file" /\ objective_terms # <<>>)
    => /\ WrittenLines[1] = KwMinimize
       /\ StartsAt(WrittenLines[2], 1, <<"o", "b", "j", ":", " ">>)
       /\ call.src.obj \in 2..Len(WrittenObjectives)
            => objective_terms = WrittenObjectives[call.src.obj]
       /\ ShowsCoefficients(WrittenLines[2], Emitted(objective_terms))

C26_Witness ==
  /\ call.op = "convert_file"
  /\ call.src.obj = 3
  /\ StartsAt(call.arg, 1, KwMaximize)
  /\ objective_terms = WrittenObjectives[3]
  /\ WrittenLines[1] = KwMinimize
  /\ EndsWith(WrittenLines[2], <<"2", ".", "0", " ", "x", " ", "-", " ", "3", ".", "0", " ", "y">>)

(***************************************************************************)
(* Properties of the line-repair pass.                                     *)
(***************************************************************************)
\* input line j (from 1) of the pass, stripped
InputLine(j) == StrippedLine(repair.lines, j - 1)

\* the text t is the line l without the commas l ends with
WithoutTrailingCommas(t, l) ==
  /\ Len(t) <= Len(l)
  /\ SubSeq(l, 1, Len(t)) = t
  /\ \A j \in (Len(t) + 1)..Len(l) : l[j] = ","
  /\ t = <<>> \/ t[Len(t)] # ","

\* C27: every line made by the merge branch holds no comma, every other
\* line is its input line without the commas it ends with, and no line of
\* the file written ends with a comma.
C27_NoTrailingComma ==
  /\ \A k \in DOMAIN repair.fixed_lines :
       IF repair.spans[k].merged
       THEN ~Contains(repair.fixed_lines[k], ",")
       ELSE WithoutTrailingCommas(repair.fixed_lines[k], InputLine(repair.spans[k].first))
  /\ \A k \in DOMAIN repair.written :
       /\ repair.written[k] = repair.fixed_lines[k] \o <<"\n">>
       /\ ~EndsWith(repair.written[k], <<",", "\n">>)

C27_Witness ==
  /\ repair.pc = "done"
  /\ repair.lines = FileLines(<<9, 1, 3>>)
  /\ repair.written = <<<<"x", " ", "<", "=", " ", "1", "\n">>,
                        <<"c", "0", ":", " ", "x", " ", "+", " ", "y", " ", "+", " ", "z", "\n">>>>

\* C28 (as the specification has it): after the pass no line of the file
\* that holds a colon holds a comma, whether it was written complete on one
\* line or merged from several.
C28_NoCommaInConstraintLines ==
  repair.pc = "done"
    => \A k \in DOMAIN repair.fixed_lines :
         Contains(repair.fixed_lines[k], ":") => ~Contains(repair.fixed_lines[k], ",")

\* input line j holds a colon, ends in operator and number, and begins with
\* no sign
CompleteConstraint(j) ==
  /\ Contains(InputLine(j), ":")
  /\ EndsComplete(InputLine(j))
  /\ InputLine(j)[1] \notin Signs

\* C28 (as the code has it): after the pass a line that holds a colon holds
\* no comma when the merge branch made it; an input line that holds a
\* colon and is complete, ending in operator and number, is a line of the
\* file as it stands, the commas of its body kept.
C28_CompleteLinesKeepCommas ==
  repair.pc = "done"
    => /\ \A k \in DOMAIN repair.fixed_lines :
            (Contains(repair.fixed_lines[k], ":") /\ Contains(repair.fixed_lines[k], ","))
              => /\ ~repair.spans[k].merged
                 /\ CompleteConstraint(repair.spans[k].first)
       /\ \A j \in DOMAIN repair.lines :
            CompleteConstraint(j)
              => \E k \in DOMAIN repair.fixed_lines :
                   /\ repair.spans[k] = [first |-> j, last |-> j, merged |-> FALSE]
                   /\ repair.fixed_lines[k] = InputLine(j)

C28_Witness ==
  /\ repair.pc = "done"
  /\ repair.lines = FileLines(<<1, 3, 2>>)
  /\ repair.written = <<<<"c", "0", ":", " ", "x", " ", "+", " ", "y", " ", "+", " ", "z", "\n">>,
                        <<"c", "1", ":", " ", "2", " ", "x", ",", " ", "+", " ", "y", " ", "<", "=", " ", "4", "\n">>>>

\* the section header lines
Headers == {KwSubjectTo, KwBounds, KwEnd}
IsHeader(line) == \E h \in Headers : Len(line) = Len(h) /\ StartsAtFold(line, 1, h)

\* the line starts a constraint: it holds a colon and begins with no sign
IsConstraintStart(line) == Contains(line, ":") /\ line[1] \notin Signs

\* the input lines a..b, stripped, a blank between each two
RECURSIVE JoinedLines(_, _)
JoinedLines(a, b) ==
  IF a > b THEN <<>>
  ELSE IF a = b THEN InputLine(a)
  ELSE JoinedLines(a, b - 1) \o <<" ">> \o InputLine(b)

\* C29: no section header line and no line that starts a constraint is
\* appended to a merged line, and nothing is appended to a merged line that
\* ends in operator and number.
C29_MergeStopsAtStarts ==
  \A k \in DOMAIN repair.fixed_lines :
    repair.spans[k].merged
      => /\ \A j \in (repair.spans[k].first + 1)..repair.spans[k].last :
              /\ ~IsHeader(InputLine(j))
              /\ ~IsConstraintStart(InputLine(j))
         /\ \A j \in repair.spans[k].first..(repair.spans[k].last - 1) :
              ~EndsComplete(JoinedLines(repair.spans[k].first, j))

\* the spans are the input lines 1..n cut into runs, in order
CutInOrder(spans, n) ==
  /\ spans = <<>> <=> n = 0
  /\ spans # <<>> => (spans[1].first = 1 /\ spans[Len(spans)].last = n)
  /\ \A k \in DOMAIN spans : spans[k].first <= spans[k].last
  /\ \A k \in 1..(Len(spans) - 1) : spans[k + 1].first = spans[k].last + 1

\* when the pass is done every input line is in exactly one line of the
\* file, the lines in input order, and the file has no more lines than the
\* input
ConsumedOnce ==
  repair.pc = "done"
    => /\ repair.i = Len(repair.lines)
       /\ Len(repair.written) = Len(repair.fixed_lines)
       /\ Len(repair.fixed_lines) <= Len(repair.lines)
       /\ CutInOrder(repair.spans, Len(repair.lines))
       /\ \A k \in DOMAIN repair.fixed_lines :
            SelectSeq(repair.fixed_lines[k], LAMBDA c : c # ",")
              = SelectSeq(JoinedLines(repair.spans[k].first, repair.spans[k].last),
                          LAMBDA c : c # ",")

\* C30: the pass, once it has read a file, terminates, and when it has
\* every input line is in exactly one line written, alone or merged, none
\* dropped, repeated or out of order, the lines written no more than the
\* lines read.
C30_TerminatesConsumingOnce ==
  []ConsumedOnce /\ ((repair.pc # "idle") ~> (repair.pc = "done"))

C30_Witness ==
  /\ repair.pc = "done"
  /\ Len(repair.lines) = MaxLines
  /\ Len(repair.fixed_lines) = 2
  /\ repair.spans[1] = [first |-> 1, last |-> 2, merged |-> TRUE]
  /\ repair.spans[2].first = 3

====
